---- MODULE Spec2Model ----
(***************************************************************************)
(* Model of the LUW shell dispatch engine (modules/dispatch.py), its       *)
(* worker pool (modules/workerthread.py, modules/mainthread.py) and the    *)
(* control loops of app.py.  Text is modelled as TLA+ strings; the string  *)
(* functions of the program are computed character by character.           *)
(***************************************************************************)
EXTENDS Integers, Sequences, FiniteSets, TLC

(***************************************************************************)
(* Text helpers: Python str operations used by the program.                *)
(***************************************************************************)
Ch(s, i) == SubSeq(s, i, i)

\* a local variable: body applied to the value v, which is computed once
With(v, body(_)) == body(v)

LowerLetters == "abcdefghijklmnopqrstuvwxyz"

UpperLetters == "ABCDEFGHIJKLMNOPQRSTUVWXYZ"

Digits == "0123456789"

\* index of the one-character string c in the string s, 0 when absent
IndexOf(c, s) ==
    LET hits == {i \in 1..Len(s) : Ch(s, i) = c}
    IN IF hits = {} THEN 0 ELSE CHOOSE i \in hits : \A j \in hits : i <= j

\* str.upper() of one character
UpperCh(c) ==
    LET i == IndexOf(c, LowerLetters)
    IN IF i = 0 THEN c ELSE Ch(UpperLetters, i)

\* str.lower() of one character
LowerCh(c) ==
    LET i == IndexOf(c, UpperLetters)
    IN IF i = 0 THEN c ELSE Ch(LowerLetters, i)

RECURSIVE StrUpper(_)
StrUpper(s) == IF s = "" THEN "" ELSE UpperCh(Ch(s, 1)) \o StrUpper(SubSeq(s, 2, Len(s)))

RECURSIVE StrLower(_)
StrLower(s) == IF s = "" THEN "" ELSE LowerCh(Ch(s, 1)) \o StrLower(SubSeq(s, 2, Len(s)))

\* s[::-1]
RECURSIVE StrReverse(_)
StrReverse(s) == IF s = "" THEN "" ELSE StrReverse(SubSeq(s, 2, Len(s))) \o Ch(s, 1)

\* sub in s
Contains(s, sub) ==
    \E i \in 1..(Len(s) - Len(sub) + 1) : SubSeq(s, i, i + Len(sub) - 1) = sub

\* s.startswith(p)
StartsWith(s, p) == Len(s) >= Len(p) /\ SubSeq(s, 1, Len(p)) = p

\* s.strip() for the blank character
RECURSIVE LStrip(_)
LStrip(s) == IF s # "" /\ Ch(s, 1) = " " THEN LStrip(SubSeq(s, 2, Len(s))) ELSE s

RECURSIVE RStrip(_)
RStrip(s) == IF s # "" /\ Ch(s, Len(s)) = " " THEN RStrip(SubSeq(s, 1, Len(s) - 1)) ELSE s

Strip(s) == RStrip(LStrip(s))

\* s.lstrip("-")
RECURSIVE LStripDash(_)
LStripDash(s) == IF s # "" /\ Ch(s, 1) = "-" THEN LStripDash(SubSeq(s, 2, Len(s))) ELSE s

\* " ".join(parts)
RECURSIVE Join(_)
Join(parts) ==
    IF parts = <<>> THEN ""
    ELSE IF Len(parts) = 1 THEN parts[1]
    ELSE parts[1] \o " " \o Join(Tail(parts))

\* s.split(sep) for a one-character separator: every field, empty ones included
RECURSIVE SplitOn(_, _, _)
SplitOn(s, sep, cur) ==
    IF s = "" THEN <<cur>>
    ELSE IF Ch(s, 1) = sep THEN <<cur>> \o SplitOn(SubSeq(s, 2, Len(s)), sep, "")
    ELSE SplitOn(SubSeq(s, 2, Len(s)), sep, cur \o Ch(s, 1))

\* s.split(): fields separated by runs of blanks, no empty field
NaiveSplit(s) == SelectSeq(SplitOn(s, " ", ""), LAMBDA t : t # "")

DQ == "\""

SQ == "'"

\* shlex.split(s) in POSIX mode over blanks and the two quote characters.
\* The accumulator holds the finished tokens, the token being built, whether a
\* token has been started and the open quote character.
RECURSIVE ShlexScan(_, _)
ShlexScan(s, acc) ==
    IF s = "" THEN
        IF acc.quote # "" THEN [ok |-> FALSE, parts |-> <<>>]
        ELSE [ok |-> TRUE,
              parts |-> IF acc.started THEN Append(acc.out, acc.cur) ELSE acc.out]
    ELSE
        LET c == Ch(s, 1)
            rest == SubSeq(s, 2, Len(s))
        IN IF acc.quote # "" THEN
               IF c = acc.quote
               THEN ShlexScan(rest, [acc EXCEPT !.quote = ""])
               ELSE ShlexScan(rest, [acc EXCEPT !.cur = @ \o c])
           ELSE IF c = DQ \/ c = SQ THEN
               ShlexScan(rest, [acc EXCEPT !.quote = c, !.started = TRUE])
           ELSE IF c = " " THEN
               IF acc.started
               THEN ShlexScan(rest, [out |-> Append(acc.out, acc.cur), cur |-> "",
                                     started |-> FALSE, quote |-> ""])
               ELSE ShlexScan(rest, acc)
           ELSE ShlexScan(rest, [acc EXCEPT !.cur = @ \o c, !.started = TRUE])

\* try: shlex.split(s)  except Exception: s.split()
split_line(s) ==
    LET r == ShlexScan(s, [out |-> <<>>, cur |-> "", started |-> FALSE, quote |-> ""])
    IN IF r.ok THEN r.parts ELSE NaiveSplit(s)

(***************************************************************************)
(* Python dicts that keep insertion order (ALIASES, os.environ): sequences *)
(* of <<key, value>> pairs with distinct keys.                             *)
(***************************************************************************)
DictHas(d, k) == \E i \in 1..Len(d) : d[i][1] = k

DictGet(d, k, default) ==
    IF DictHas(d, k) THEN d[CHOOSE i \in 1..Len(d) : d[i][1] = k][2] ELSE default

DictSet(d, k, v) ==
    IF DictHas(d, k)
    THEN [i \in 1..Len(d) |-> IF d[i][1] = k THEN <<k, v>> ELSE d[i]]
    ELSE Append(d, <<k, v>>)

DictPop(d, k) == SelectSeq(d, LAMBDA e : e[1] # k)

\* argument mappings (dict of flag name -> value) are functions on their keys
EmptyArgs == [k \in {} |-> ""]

ArgGet(args, k, default) == IF k \in DOMAIN args THEN args[k] ELSE default

StrArg(v) == [k \in {"str"} |-> v]

(***************************************************************************)
(* Variable expansion, dispatch.py _env_pattern / _expand_env_in_str       *)
(***************************************************************************)
IsIdentStart(c) == IndexOf(c, LowerLetters) > 0 \/ IndexOf(c, UpperLetters) > 0 \/ c = "_"

IsIdentChar(c) == IsIdentStart(c) \/ IndexOf(c, Digits) > 0

\* length of the longest [A-Za-z_]\w* at the start of s, 0 when there is none
RECURSIVE WordLen(_)
WordLen(s) == IF s # "" /\ IsIdentChar(Ch(s, 1)) THEN 1 + WordLen(SubSeq(s, 2, Len(s))) ELSE 0

IdentLen(s) == IF s # "" /\ IsIdentStart(Ch(s, 1)) THEN WordLen(s) ELSE 0

RECURSIVE expand_env_in_str(_, _)
expand_env_in_str(s, environ) ==
    IF s = "" THEN s
    ELSE IF Ch(s, 1) # "$" THEN Ch(s, 1) \o expand_env_in_str(SubSeq(s, 2, Len(s)), environ)
    ELSE
        \* the three alternatives of _env_pattern, tried in order at a "$":
        \* m = <<offset of the name, length of the name, length of the closer>>
        With(<<IF StartsWith(s, "$env:") THEN IdentLen(SubSeq(s, 6, Len(s))) ELSE 0,
               IF StartsWith(s, "${") THEN IdentLen(SubSeq(s, 3, Len(s))) ELSE 0,
               IdentLen(SubSeq(s, 2, Len(s)))>>,
             LAMBDA n :
        With(IF n[1] > 0 THEN <<6, n[1], 0>>
             ELSE IF n[2] > 0 /\ Len(s) >= 3 + n[2] /\ Ch(s, 3 + n[2]) = "}"
             THEN <<3, n[2], 1>>
             ELSE <<2, n[3], 0>>,
             LAMBDA m :
                (IF m[2] > 0 THEN DictGet(environ, SubSeq(s, m[1], m[1] + m[2] - 1), "")
                 ELSE "$")
                    \o expand_env_in_str(SubSeq(s, m[1] + m[2] + m[3], Len(s)), environ)))

expand_env_in_args(args, environ) ==
    [k \in DOMAIN args |-> expand_env_in_str(args[k], environ)]

\* dispatch.py _was_quoted
was_quoted(token, original_text) ==
    /\ original_text # ""
    /\ \/ Contains(original_text, DQ \o token \o DQ)
       \/ Contains(original_text, SQ \o token \o SQ)
       \/ Contains(original_text, "${" \o token \o "}")

(***************************************************************************)
(* The flag/positional scan shared by _build_args_from_parts,              *)
(* _extract_positional, _consumed_length and the pos_indices loop.         *)
(***************************************************************************)
RECURSIVE ScanParts(_, _, _)
ScanParts(parts, i, acc) ==
    IF i > Len(parts) THEN [acc EXCEPT !.next = i]
    ELSE IF StartsWith(parts[i], "--") /\ i + 1 <= Len(parts) THEN
        ScanParts(parts, i + 2,
                  [acc EXCEPT !.args = (LStripDash(parts[i]) :> parts[i + 1]) @@ @])
    ELSE
        ScanParts(parts, i + 1,
                  [acc EXCEPT !.positional = Append(@, parts[i]),
                              !.pos_indices = Append(@, i)])

Scan(parts) ==
    ScanParts(parts, 2, [args |-> EmptyArgs, positional |-> <<>>,
                         pos_indices |-> <<>>, next |-> 2])

build_args_from_parts(parts) ==
    LET r == Scan(parts)
    IN IF r.positional # <<>> /\ "str" \notin DOMAIN r.args
       THEN ("str" :> Join(r.positional)) @@ r.args
       ELSE r.args

extract_positional(parts) == Scan(parts).positional

\* number of tokens consumed, the command included (0-based index one past the
\* end in the source, which equals the count)
consumed_length(parts) == Scan(parts).next - 1

(***************************************************************************)
(* The command registry (commands.COMMANDS).  The model keeps five of the  *)
(* registered commands: two text functions, one that is also a built-in    *)
(* name, one that raises and one that only takes time.  A call yields      *)
(* [raised, val]: the returned text, or the message of the exception.      *)
(***************************************************************************)
COMMANDS == {"reverse", "upper", "calc", "echo", "sleep"}

BUILTIN_NAMES ==
    {"cd", "pwd", "echo", "print", "ls", "env", "set", "get", "help", "alias",
     "unalias", "aliases"}

Truthy(v) == v # ""

Returned(v) == [raised |-> FALSE, val |-> v]

Raised(msg) == [raised |-> TRUE, val |-> msg]

NoSuchFile(path) == "[Errno 2] No such file or directory: '" \o path \o "'"

\* commands.reverse: no file and no URL of the model can be read
reverse(args) ==
    LET file_path == IF Truthy(ArgGet(args, "file", "")) THEN ArgGet(args, "file", "")
                     ELSE ArgGet(args, "f", "")
        url == IF Truthy(ArgGet(args, "url", "")) THEN ArgGet(args, "url", "")
               ELSE ArgGet(args, "u", "")
    IN IF Truthy(file_path) THEN Returned("reverse failed reading file: " \o NoSuchFile(file_path))
       ELSE IF Truthy(url) THEN Returned("reverse failed fetching url: unknown url type: '" \o url \o "'")
       ELSE Returned(StrReverse(ArgGet(args, "str", "")))

\* commands.upper
upper(args) == Returned(StrUpper(ArgGet(args, "str", "")))

\* variant: the text is returned as it was enqueued
echo_as_enqueued(args, environ) == Returned(ArgGet(args, "str", ""))

\* commands.echo
echo(args, environ) == Returned(expand_env_in_str(ArgGet(args, "str", ""), environ))

\* commands.calculator: args["str"] raises KeyError without a positional
\* argument; helpers/calc.exe is not part of the repository, so running it
\* raises FileNotFoundError
calculator(args) ==
    IF "str" \notin DOMAIN args THEN Raised("'str'")
    ELSE Raised("[Errno 2] No such file or directory: 'helpers/calc.exe'")

\* commands.sleep: blocks, then returns the empty text
sleep(args) == Returned("")

\* func(args) for func = COMMANDS[name]
CallCommand(name, args, environ) ==
    CASE name = "reverse" -> reverse(args)
      [] name = "sleep" -> sleep(args)
      [] name = "upper" -> upper(args)
      [] name = "echo" -> echo(args, environ)
      [] name = "calc" -> calculator(args)

\* func.__doc__ of the registered commands
CommandDoc(name) ==
    IF name = "reverse"
    THEN "\n    Reverse text. Supports:\n    - positional text: reverse Hello -> OLLEH\n    "
    ELSE IF name = "sleep" THEN "Sleep N seconds (blocking)."
    ELSE ""

(***************************************************************************)
(* Built-ins, dispatch.py _run_builtin.  The session S is the process-wide *)
(* state the built-ins read and write: [ALIASES, environ, cwd].  A call    *)
(* yields [handled, out, S].                                               *)
(***************************************************************************)
Home == "/home"

\* the directories of the modelled file system and their sorted entries
Dirs == {"/", "/tmp", Home}

DirEntries(d) == IF d = "/" THEN "home\ntmp" ELSE ""

BUILTIN_DOCS ==
    << <<"alias", "alias name='expansion' - Define a session alias.">>,
       <<"aliases", "aliases - List currently defined aliases.">>,
       <<"cd", "cd <path> - Change directory (supports --mkdir/--create/--p).">>,
       <<"echo", "echo <text> - Print text (expands $env:VAR).">>,
       <<"env", "env - List environment variables.">>,
       <<"get", "get VAR - Get environment variable.">>,
       <<"help", "help [command] - Show available commands or details for a command.">>,
       <<"ls", "ls [path] - List directory.">>,
       <<"lupdate", "lupdate - Update the shell">>,
       <<"print", "print <text> - Same as echo.">>,
       <<"pwd", "pwd - Print current directory.">>,
       <<"set", "set VAR=VALUE - Set environment variable.">>,
       <<"unalias", "unalias name - Remove an alias.">> >>

\* sorted(COMMANDS.keys())
SortedCommands == <<"calc", "echo", "reverse", "sleep", "upper">>

\* "\n".join(lines)
RECURSIVE JoinLines(_)
JoinLines(lines) ==
    IF lines = <<>> THEN ""
    ELSE IF Len(lines) = 1 THEN lines[1]
    ELSE lines[1] \o "\n" \o JoinLines(Tail(lines))

\* f"{name:15}"
RECURSIVE Pad15(_)
Pad15(name) == IF Len(name) >= 15 THEN name ELSE Pad15(name \o " ")

\* first line of the stripped docstring
DocSummary(name) ==
    IF name = "reverse" THEN "Reverse text. Supports:"
    ELSE IF name = "sleep" THEN "Sleep N seconds (blocking)."
    ELSE ""

HelpListing ==
    JoinLines([i \in 1..Len(SortedCommands) |->
                   Pad15(SortedCommands[i]) \o " - " \o DocSummary(SortedCommands[i])]
              \o <<"\nBuiltins:">>
              \o [i \in 1..Len(BUILTIN_DOCS) |->
                   Pad15(BUILTIN_DOCS[i][1]) \o " - " \o BUILTIN_DOCS[i][2]])

\* s.strip("'\"")
RECURSIVE StripQuotes(_)
StripQuotes(s) ==
    IF s # "" /\ (Ch(s, 1) = SQ \/ Ch(s, 1) = DQ) THEN StripQuotes(SubSeq(s, 2, Len(s)))
    ELSE IF s # "" /\ (Ch(s, Len(s)) = SQ \/ Ch(s, Len(s)) = DQ)
    THEN StripQuotes(SubSeq(s, 1, Len(s) - 1))
    ELSE s

\* s.split("=", 1): the text before and after the first "="
BeforeEq(s) == SubSeq(s, 1, IndexOf("=", s) - 1)

AfterEq(s) == SubSeq(s, IndexOf("=", s) + 1, Len(s))

\* strip a leading "$env:" and then a leading "$"
StripVarPrefix(name) ==
    LET n1 == IF StartsWith(name, "$env:") THEN SubSeq(name, 6, Len(name)) ELSE name
    IN IF StartsWith(n1, "$") THEN SubSeq(n1, 2, Len(n1)) ELSE n1

Handled(out, S) == [handled |-> TRUE, out |-> out, S |-> S, raised |-> FALSE]

\* an exception leaves _run_builtin: nothing is returned, out is its message
Raises(msg, S) == [handled |-> FALSE, out |-> msg, S |-> S, raised |-> TRUE]

\* the character of the model's alphabet that stands for a lone surrogate
\* (U+D800): a str may hold it, str.encode refuses it
Surrogate == "\f"

\* str(n) of a natural number
RECURSIVE DecStr(_)
DecStr(n) ==
    IF n < 10 THEN SubSeq(Digits, n + 1, n + 1)
    ELSE DecStr(n \div 10) \o SubSeq(Digits, (n % 10) + 1, (n % 10) + 1)

\* the UnicodeEncodeError of os.environ's encodekey and encodevalue
\* (text.encode(fs encoding, "surrogateescape")), "" when text can be encoded
EncodeError(text) ==
    IF ~Contains(text, Surrogate) THEN ""
    ELSE "'utf-8' codec can't encode character '\\ud800' in position "
         \o DecStr(IndexOf(Surrogate, text) - 1) \o ": surrogates not allowed"

builtin_help(args, S) ==
    LET topic == Strip(ArgGet(args, "str", ""))
    IN IF topic = "" THEN Handled(HelpListing, S)
       ELSE IF topic \in COMMANDS THEN Handled(topic \o "\n" \o CommandDoc(topic), S)
       ELSE IF DictHas(BUILTIN_DOCS, topic)
       THEN Handled(topic \o "\n" \o DictGet(BUILTIN_DOCS, topic, ""), S)
       ELSE Handled("No such command: " \o topic, S)

builtin_alias(args, S) ==
    LET raw == ArgGet(args, "str", "")
        sp == ShlexScan(raw, [out |-> <<>>, cur |-> "", started |-> FALSE, quote |-> ""])
        name == IF Contains(raw, "=") THEN Strip(BeforeEq(raw)) ELSE sp.parts[1]
        rest == IF Contains(raw, "=") THEN StripQuotes(Strip(AfterEq(raw)))
                ELSE Join(Tail(sp.parts))
    IN IF raw = "" THEN Handled("usage: alias name='expansion'", S)
       ELSE IF ~Contains(raw, "=") /\ ~sp.ok THEN Handled("alias failed: No closing quotation", S)
       ELSE IF ~Contains(raw, "=") /\ sp.parts = <<>>
       THEN Handled("alias failed: list index out of range", S)
       ELSE IF name = "" \/ rest = "" THEN Handled("invalid alias", S)
       ELSE Handled("", [S EXCEPT !.ALIASES = DictSet(@, name, rest)])

builtin_unalias(args, S) ==
    LET name == Strip(ArgGet(args, "str", ""))
    IN IF name = "" THEN Handled("usage: unalias name", S)
       ELSE Handled("", [S EXCEPT !.ALIASES = DictPop(@, name)])

builtin_aliases(S) ==
    IF S.ALIASES = <<>> THEN Handled("no aliases", S)
    ELSE Handled(JoinLines([i \in 1..Len(S.ALIASES) |->
                               S.ALIASES[i][1] \o " -> " \o S.ALIASES[i][2]]), S)

builtin_cd(args, S) ==
    LET given == IF Truthy(ArgGet(args, "str", "")) THEN ArgGet(args, "str", "")
                 ELSE ArgGet(args, "path", "")
    IN With(expand_env_in_str(IF given = "" THEN Home ELSE given, S.environ),
            LAMBDA path :
                IF EncodeError(path) # "" THEN Handled("cd failed: " \o EncodeError(path), S)
                ELSE IF path \in Dirs THEN Handled(path, [S EXCEPT !.cwd = path])
                ELSE Handled("cd failed: " \o NoSuchFile(path), S))

builtin_ls(args, S) ==
    LET given == IF Truthy(ArgGet(args, "str", "")) THEN ArgGet(args, "str", "")
                 ELSE ArgGet(args, "path", ".")
    IN With(expand_env_in_str(given, S.environ),
            LAMBDA path :
                IF EncodeError(path) # "" THEN Handled("ls failed: " \o EncodeError(path), S)
                ELSE IF (IF path = "." THEN S.cwd ELSE path) \in Dirs
                THEN Handled(DirEntries(IF path = "." THEN S.cwd ELSE path), S)
                ELSE Handled("ls failed: " \o NoSuchFile(path), S))

builtin_env(S) ==
    Handled(JoinLines([i \in 1..Len(S.environ) |->
                          S.environ[i][1] \o "=" \o S.environ[i][2]]), S)

\* if len(value) >= 2 and value[0] == value[-1] and value[0] in ('"', "'")
StripQuote1(value) ==
    IF Len(value) >= 2 /\ Ch(value, 1) = Ch(value, Len(value))
       /\ (Ch(value, 1) = DQ \/ Ch(value, 1) = SQ)
    THEN SubSeq(value, 2, Len(value) - 1) ELSE value

builtin_set(args, S) ==
    With(Strip(ArgGet(args, "str", "")), LAMBDA raw :
    With(split_line(raw), LAMBDA parts :
        IF raw = "" THEN Handled("usage: set VAR=VALUE", S)
        ELSE IF ~Contains(raw, "=") /\ Len(parts) < 2 THEN Handled("usage: set VAR=VALUE", S)
        ELSE
            With([name |-> StripVarPrefix(IF Contains(raw, "=") THEN Strip(BeforeEq(raw))
                                          ELSE parts[1]),
                  value |-> IF Contains(raw, "=") THEN Strip(AfterEq(raw))
                            ELSE Join(Tail(parts))],
                 LAMBDA nv :
                    IF EncodeError(nv.name) # ""
                    THEN Handled("set failed: " \o EncodeError(nv.name), S)
                    ELSE IF EncodeError(StripQuote1(nv.value)) # ""
                    THEN Handled("set failed: " \o EncodeError(StripQuote1(nv.value)), S)
                    ELSE IF nv.name = "" \/ Contains(nv.name, "=")
                    THEN Handled("set failed: [Errno 22] Invalid argument", S)
                    ELSE Handled("", [S EXCEPT !.environ =
                                         DictSet(@, nv.name, StripQuote1(nv.value))]))))

\* variant: the name is looked up as written, prefix included
builtin_get_as_written(args, S) ==
    LET k == ArgGet(args, "str", "")
    IN IF k = "" THEN Handled("", S)
       ELSE IF EncodeError(k) # "" THEN Raises(EncodeError(k), S)
       ELSE Handled(DictGet(S.environ, k, ""), S)

builtin_get(args, S) ==
    LET k == ArgGet(args, "str", "")
    IN IF k = "" THEN Handled("", S)
       ELSE IF EncodeError(StripVarPrefix(k)) # "" THEN Raises(EncodeError(StripVarPrefix(k)), S)
       ELSE Handled(DictGet(S.environ, StripVarPrefix(k), ""), S)

run_builtin(command, args, S) ==
    CASE command = "help" -> builtin_help(args, S)
      [] command = "alias" -> builtin_alias(args, S)
      [] command = "unalias" -> builtin_unalias(args, S)
      [] command = "aliases" -> builtin_aliases(S)
      [] command = "cd" -> builtin_cd(args, S)
      [] command = "pwd" -> Handled(S.cwd, S)
      [] command \in {"echo", "print"} ->
             Handled(expand_env_in_str(ArgGet(args, "str", ""), S.environ), S)
      [] command = "ls" -> builtin_ls(args, S)
      [] command = "env" -> builtin_env(S)
      [] command = "set" -> builtin_set(args, S)
      [] command = "get" -> builtin_get(args, S)
      [] OTHER -> [handled |-> FALSE, out |-> "None", S |-> S, raised |-> FALSE]

(***************************************************************************)
(* Synchronous evaluation of one name on the control thread, as both chain *)
(* resolvers do it.  An evaluation state is [ok, value, S, calls]: calls   *)
(* records every function the control thread has invoked, in order.        *)
(***************************************************************************)
\* variant: an exception of a command function is not caught by the step
EvalNameRaiseIgnored(name, args, st) ==
    IF ~st.ok THEN st
    ELSE IF name \in BUILTIN_NAMES THEN
        With(run_builtin(name, args, st.S), LAMBDA r :
               [ok |-> r.handled, value |-> r.out, S |-> r.S,
                calls |-> Append(st.calls,
                                 [name |-> name, args |-> args, on |-> "builtin"])])
    ELSE IF name \notin COMMANDS THEN [st EXCEPT !.ok = FALSE]
    ELSE
        With(CallCommand(name, args, st.S.environ), LAMBDA r :
            [ok |-> TRUE, value |-> r.val, S |-> st.S,
             calls |-> Append(st.calls, [name |-> name, args |-> args, on |-> "command"])])

\* one step "if name in BUILTIN_NAMES: _run_builtin(...) else COMMANDS.get(name)(...)"
EvalName(name, args, st) ==
    IF ~st.ok THEN st
    ELSE IF name \in BUILTIN_NAMES THEN
        With(run_builtin(name, args, st.S), LAMBDA r :
               [ok |-> r.handled, value |-> r.out, S |-> r.S,
                calls |-> Append(st.calls,
                                 [name |-> name, args |-> args, on |-> "builtin"])])
    ELSE IF name \notin COMMANDS THEN [st EXCEPT !.ok = FALSE]
    ELSE
        With(CallCommand(name, args, st.S.environ), LAMBDA r :
            [ok |-> ~r.raised, value |-> r.val, S |-> st.S,
             calls |-> Append(st.calls, [name |-> name, args |-> args, on |-> "command"])])

\* for cmd_name in reversed(chain[:-1]): value = cmd_name({"str": str(value)})
RECURSIVE ApplyChain(_, _)
ApplyChain(chain, st) ==
    IF Len(chain) <= 1 \/ ~st.ok THEN st
    ELSE ApplyChain(SubSeq(chain, 1, Len(chain) - 1),
                    EvalName(chain[Len(chain) - 1], StrArg(st.value), st))

Recognized(tok, original_text) ==
    (tok \in COMMANDS \/ tok \in BUILTIN_NAMES) /\ ~was_quoted(tok, original_text)

\* the run of recognized names of positional that starts at index p
RECURSIVE ChainFrom(_, _, _)
ChainFrom(positional, p, original_text) ==
    IF p <= Len(positional) /\ Recognized(positional[p], original_text)
    THEN <<positional[p]>> \o ChainFrom(positional, p + 1, original_text)
    ELSE <<>>

Min(set) == CHOOSE m \in set : \A n \in set : m <= n

Max2(a, b) == IF a >= b THEN a ELSE b

NotApplicable(st) == [ok |-> FALSE, result |-> "None", S |-> st.S, calls |-> st.calls]

\* dispatch.py _evaluate_composed_chain_if_any; indices are 1-based here
evaluate_composed_chain_if_any(command, parts, original_text, S) ==
    LET st0 == [ok |-> TRUE, value |-> "", S |-> S, calls |-> <<>>]
    IN With(Scan(parts), LAMBDA sc :
       With({p \in 1..Len(sc.positional) : Recognized(sc.positional[p], original_text)},
            LAMBDA starts :
        IF sc.positional = <<>> \/ starts = {} THEN NotApplicable(st0)
        ELSE
         With(Min(starts), LAMBDA found_pos_idx :
         With(ChainFrom(sc.positional, found_pos_idx, original_text), LAMBDA chain :
         With(Min({idx \in sc.pos_indices[found_pos_idx]..Len(parts) :
                      parts[idx] = chain[Len(chain)]}),
              LAMBDA start_idx :
         With(SubSeq(parts, start_idx, Len(parts)), LAMBDA parts_for_inner :
         With(ApplyChain(chain, EvalName(parts_for_inner[1],
                                         build_args_from_parts(parts_for_inner), st0)),
              LAMBDA st2 :
            LET start_pos == sc.pos_indices[found_pos_idx]
                end_idx == start_idx + consumed_length(parts_for_inner) - 1
                last_chain_pos_in_parts == sc.pos_indices[found_pos_idx + Len(chain) - 1]
                end_pos == Max2(end_idx, last_chain_pos_in_parts)
                new_parts == SubSeq(parts, 1, start_pos - 1) \o <<st2.value>>
                                 \o SubSeq(parts, end_pos + 1, Len(parts))
            IN With(EvalName(command, build_args_from_parts(new_parts), st2),
                    LAMBDA st3 :
                        IF ~st3.ok THEN NotApplicable(st3)
                        ELSE [ok |-> TRUE, result |-> st3.value, S |-> st3.S,
                              calls |-> st3.calls]))))))))

\* dispatch.py _evaluate_inner_chain_if_any: the chain must start at the first
\* positional token, and the outer command is not applied
evaluate_inner_chain_if_any(parts, original_text, S) ==
    LET st0 == [ok |-> TRUE, value |-> "", S |-> S, calls |-> <<>>]
    IN With(Scan(parts).positional, LAMBDA positional :
       With(ChainFrom(positional, 1, original_text), LAMBDA chain :
        IF positional = <<>> \/ chain = <<>> THEN NotApplicable(st0)
        ELSE
         With(SubSeq(parts, Min({i \in 2..Len(parts) : parts[i] = chain[Len(chain)]}),
                     Len(parts)),
              LAMBDA parts_for_inner :
         With(ApplyChain(chain, EvalName(parts_for_inner[1],
                                         build_args_from_parts(parts_for_inner), st0)),
              LAMBDA st2 :
                IF ~st2.ok THEN NotApplicable(st2)
                ELSE [ok |-> TRUE, result |-> st2.value, S |-> st2.S,
                      calls |-> st2.calls]))))

(***************************************************************************)
(* Alias expansion, dispatch.py _expand_aliases_line                       *)
(***************************************************************************)
max_depth == 5

\* variant: the loop test admits one more round
may_expand_inclusive(depth, parts, ALIASES) ==
    depth <= max_depth /\ parts # <<>> /\ DictHas(ALIASES, parts[1])

\* "while depth < max_depth", "if not parts: break", "if first in ALIASES"
may_expand(depth, parts, ALIASES) ==
    depth < max_depth /\ parts # <<>> /\ DictHas(ALIASES, parts[1])

RECURSIVE ExpandLoop(_, _, _)
ExpandLoop(new_line, depth, ALIASES) ==
    LET parts == split_line(new_line)
    IN IF may_expand(depth, parts, ALIASES)
       THEN ExpandLoop(IF Len(parts) > 1
                       THEN DictGet(ALIASES, parts[1], "") \o " " \o Join(Tail(parts))
                       ELSE DictGet(ALIASES, parts[1], ""),
                       depth + 1, ALIASES)
       ELSE new_line

\* variant: a single replacement, no loop
expand_aliases_once(line, ALIASES) ==
    LET parts == split_line(line)
    IN IF Strip(line) = "" \/ parts = <<>> \/ ~DictHas(ALIASES, parts[1]) THEN line
       ELSE IF Len(parts) > 1
       THEN DictGet(ALIASES, parts[1], "") \o " " \o Join(Tail(parts))
       ELSE DictGet(ALIASES, parts[1], "")

expand_aliases_line(line, ALIASES) ==
    IF Strip(line) = "" THEN line ELSE ExpandLoop(line, 0, ALIASES)

(***************************************************************************)
(* handle_input up to its first interaction with the worker pool: the      *)
(* stages of dispatch.py handle_input as a function of the line, the       *)
(* session, and the outcome of the external process when the line runs     *)
(* one (shellErr).  next tells how the call goes on: "return", "raise",    *)
(* "batch" (the subcommand loop) or "await" (one task enqueued, one read). *)
(***************************************************************************)
NoTask == [command |-> "", args |-> EmptyArgs]

SHELL_MARKERS == {"!pwsh", "!cmd"}

BATCH_MARKERS == {"!multithread", "!mt"}

SUPPRESS_WORDS == {"!suppressdebug", "!suppress-debug"}

RESUME_WORDS == {"!resumedebug", "!enabledebug", "!unsuppressdebug"}

Outcome(stage, next, command_line, S) ==
    [stage |-> stage, next |-> next, command_line |-> command_line, command |-> "",
     S |-> S, output |-> <<>>, calls |-> <<>>, task |-> NoTask, debug |-> "keep",
     subs |-> <<>>, global_shell |-> ""]

\* the top-level "!pwsh" and "!cmd" branches
shell_stage(command, command_line, S, shellErr) ==
    LET raw == Strip(SubSeq(command_line, Len(command) + 1, Len(command_line)))
        o == [Outcome("shell", "return", command_line, S) EXCEPT !.command = command]
    IN IF command = "!pwsh" THEN
           IF raw = "" THEN o
           ELSE IF shellErr THEN [o EXCEPT !.output = <<"pwsh failed: pwsh/powershell not found">>]
           ELSE o
       ELSE
           IF raw = "" THEN [o EXCEPT !.output = <<"Keine cmd-Anweisung angegeben.">>]
           \* shell_executor has no attribute run_cmd: AttributeError leaves handle_input
           ELSE [o EXCEPT !.next = "raise"]

\* the head of the "!multithread" / "!mt" branch: the list of subcommands
batch_stage(command, command_line, S) ==
    LET o == [Outcome("batch", "return", command_line, S) EXCEPT !.command = command]
    IN With(Strip(SubSeq(command_line, Len(command) + 1, Len(command_line))),
            LAMBDA remainder :
       With(split_line(remainder), LAMBDA tokens :
       With(IF tokens # <<>> /\ tokens[1] \in SHELL_MARKERS THEN tokens[1] ELSE "",
            LAMBDA global_shell :
       With(SplitOn(IF global_shell # ""
                    THEN Strip(SubSeq(remainder, Len(global_shell) + 1, Len(remainder)))
                    ELSE remainder, "&", ""),
            LAMBDA fields :
       With(SelectSeq([i \in 1..Len(fields) |-> Strip(fields[i])], LAMBDA t : t # ""),
            LAMBDA subcmds :
                IF remainder = "" \/ subcmds = <<>> THEN o
                ELSE [o EXCEPT !.next = "batch", !.subs = subcmds,
                               !.global_shell = global_shell])))))

\* the outcome of the built-in stage
builtin_outcome(o, command, args, b) ==
    [o EXCEPT !.stage = "builtin", !.S = b.S,
              !.output = IF Truthy(b.out) THEN <<b.out>> ELSE <<>>,
              !.calls = Append(@, [name |-> command, args |-> args, on |-> "builtin"])]

\* the outcome of the enqueue stage
enqueue_outcome(o, command, args) ==
    [o EXCEPT !.stage = "enqueue", !.next = "await",
              !.task = [command |-> command,
                        args |-> expand_env_in_args(args, o.S.environ)]]

\* variant: a registered command is enqueued before the built-ins are tried
plain_stages_registered_first(command, parts_all, command_line, S) ==
    With(evaluate_composed_chain_if_any(command, parts_all, command_line, S), LAMBDA c :
    With(build_args_from_parts(parts_all), LAMBDA args :
    With([Outcome("chain", "return", command_line, c.S) EXCEPT
              !.command = command, !.calls = c.calls],
         LAMBDA o :
            IF c.ok THEN [o EXCEPT !.output = <<c.result>>]
            ELSE IF command \in COMMANDS THEN enqueue_outcome(o, command, args)
            ELSE With(run_builtin(command, args, c.S), LAMBDA b :
                    IF b.raised THEN [o EXCEPT !.stage = "builtin", !.next = "raise"]
                    ELSE IF b.handled THEN builtin_outcome(o, command, args, b)
                    ELSE enqueue_outcome(o, command, args)))))

\* chain composition, then built-in, then enqueue
plain_stages(command, parts_all, command_line, S) ==
    With(evaluate_composed_chain_if_any(command, parts_all, command_line, S), LAMBDA c :
    With(build_args_from_parts(parts_all), LAMBDA args :
    With([Outcome("chain", "return", command_line, c.S) EXCEPT
              !.command = command, !.calls = c.calls],
         LAMBDA o :
            IF c.ok THEN [o EXCEPT !.output = <<c.result>>]
            ELSE With(run_builtin(command, args, c.S), LAMBDA b :
                    IF b.raised THEN [o EXCEPT !.stage = "builtin", !.next = "raise"]
                    ELSE IF b.handled THEN builtin_outcome(o, command, args, b)
                    ELSE enqueue_outcome(o, command, args)))))

\* dispatch.py handle_input, lines 555-727
handle_input_stages(line, S, shellErr) ==
    With(expand_aliases_line(line, S.ALIASES), LAMBDA command_line :
    With(split_line(command_line), LAMBDA parts_all :
    With(StrLower(Strip(command_line)), LAMBDA cl :
        IF Strip(line) = "" THEN Outcome("blank", "return", line, S)
        ELSE IF cl \in SUPPRESS_WORDS
        THEN [Outcome("debug", "return", command_line, S) EXCEPT
                  !.debug = "suppress", !.output = <<"Debug suppressed for this session.">>]
        ELSE IF cl \in RESUME_WORDS
        THEN [Outcome("debug", "return", command_line, S) EXCEPT
                  !.debug = "resume", !.output = <<"Debug resumed for this session.">>]
        ELSE IF parts_all = <<>> THEN Outcome("blank", "return", command_line, S)
        ELSE IF parts_all[1] \in SHELL_MARKERS
        THEN shell_stage(parts_all[1], command_line, S, shellErr)
        ELSE IF parts_all[1] \in BATCH_MARKERS
        THEN batch_stage(parts_all[1], command_line, S)
        ELSE plain_stages(parts_all[1], parts_all, command_line, S))))

\* one iteration of the subcommand loop of batch mode, dispatch.py lines 640-696
dispatch_sub(sub, global_shell, S, shellErr) ==
    LET o == [kind |-> "skip", S |-> S, output |-> <<>>, calls |-> <<>>, task |-> NoTask]
    IN With(split_line(sub), LAMBDA sub_parts :
        IF sub_parts = <<>> THEN o
        ELSE
         With(global_shell = "" /\ sub_parts[1] \in SHELL_MARKERS, LAMBDA own_shell :
         With(IF own_shell THEN sub_parts[1] ELSE global_shell, LAMBDA shell_mode :
            IF shell_mode # "" THEN
                IF Strip(Join(SubSeq(sub_parts, IF own_shell THEN 2 ELSE 1,
                                     Len(sub_parts)))) = ""
                THEN [o EXCEPT !.kind = "shell",
                               !.output = <<"Keine " \o shell_mode \o " Anweisung angegeben.">>]
                ELSE IF shellErr
                THEN [o EXCEPT !.kind = "shell", !.output = <<"shell failed: not found">>]
                ELSE [o EXCEPT !.kind = "shell"]
            ELSE
             With(evaluate_inner_chain_if_any(sub_parts, sub, S), LAMBDA c :
                IF c.ok THEN
                    [o EXCEPT !.kind = "chain", !.S = c.S, !.calls = c.calls,
                              !.task = [command |-> sub_parts[1],
                                        args |-> StrArg(c.result)]]
                ELSE
                 With(build_args_from_parts(sub_parts), LAMBDA args :
                 With(run_builtin(sub_parts[1], args, c.S), LAMBDA b :
                    IF b.raised THEN [o EXCEPT !.kind = "raise", !.calls = c.calls]
                    ELSE IF b.handled THEN
                        [o EXCEPT !.kind = "builtin", !.S = b.S,
                                  !.output = IF Truthy(b.out) THEN <<b.out>> ELSE <<>>,
                                  !.calls = Append(c.calls,
                                                   [name |-> sub_parts[1], args |-> args,
                                                    on |-> "builtin"])]
                    ELSE
                        [o EXCEPT !.kind = "enqueue", !.S = c.S, !.calls = c.calls,
                                  !.task = [command |-> sub_parts[1],
                                            args |-> expand_env_in_args(args,
                                                                        c.S.environ)]]))))))

(***************************************************************************)
(* One task in a worker, workerthread.py Worker.run lines 24-36: the       *)
(* result text the worker will publish, and whether the thread survives.   *)
(***************************************************************************)
\* variant: the lookup is a subscript, the miss is reported as the KeyError
unknown_command_key_error(command) == "Fehler bei " \o command \o ": '" \o command \o "'"

\* result = f"Unbekanntes Kommando: {command}"
unknown_command(command) == "Unbekanntes Kommando: " \o command

\* variant: no except clause, the exception of a command ends the thread
worker_result_unguarded(command, args, environ) ==
    IF command \in COMMANDS THEN
        With(CallCommand(command, args, environ), LAMBDA r :
            IF r.raised
            THEN [text |-> "", survives |-> FALSE]
            ELSE [text |-> r.val, survives |-> TRUE])
    ELSE [text |-> unknown_command(command), survives |-> TRUE]

worker_result(command, args, environ) ==
    IF command \in COMMANDS THEN
        With(CallCommand(command, args, environ), LAMBDA r :
            IF r.raised
            THEN [text |-> "Fehler bei " \o command \o ": " \o r.val, survives |-> TRUE]
            ELSE [text |-> r.val, survives |-> TRUE])
    ELSE [text |-> unknown_command(command), survives |-> TRUE]

(***************************************************************************)
(* Bytes and text of the .le container, app.py compile_latin and           *)
(* load_and_run_le.  A byte string is a sequence of numbers 0..255, a text *)
(* is a sequence of code points.                                           *)
(***************************************************************************)
\* the ASCII characters 32..95 and 97..126 in the order of their codes
PrintableLow == " !\"#$%&'()*+,-./0123456789:;<=>?@ABCDEFGHIJKLMNOPQRSTUVWXYZ[\\]^_"

PrintableHigh == "abcdefghijklmnopqrstuvwxyz{|}~"

\* ord(c) of a newline or of one of the characters above
Ord(c) ==
    IF c = "\n" THEN 10
    ELSE IF IndexOf(c, PrintableLow) > 0 THEN 31 + IndexOf(c, PrintableLow)
    ELSE 96 + IndexOf(c, PrintableHigh)

\* chr(n); a code point that is not one of the characters above is shown as "?"
Chr(n) ==
    IF n = 10 THEN "\n"
    ELSE IF n >= 32 /\ n <= 95 THEN Ch(PrintableLow, n - 31)
    ELSE IF n >= 97 /\ n <= 126 THEN Ch(PrintableHigh, n - 96)
    ELSE "?"

\* the code points of a string
Codes(s) == [i \in 1..Len(s) |-> Ord(Ch(s, i))]

\* the string of the code points cps[lo..hi]
RECURSIVE TextRange(_, _, _)
TextRange(cps, lo, hi) ==
    IF lo > hi THEN ""
    ELSE IF lo = hi THEN Chr(cps[lo])
    ELSE TextRange(cps, lo, (lo + hi) \div 2) \o TextRange(cps, (lo + hi) \div 2 + 1, hi)

\* the string of a sequence of code points
Text(cps) == TextRange(cps, 1, Len(cps))

\* the UTF-8 bytes of one code point below 65536
EncodeCp(c) ==
    IF c < 128 THEN <<c>>
    ELSE IF c < 2048 THEN <<192 + (c \div 64), 128 + (c % 64)>>
    ELSE <<224 + (c \div 4096), 128 + ((c \div 64) % 64), 128 + (c % 64)>>

RECURSIVE EncodeRange(_, _, _)
EncodeRange(cps, lo, hi) ==
    IF lo > hi THEN <<>>
    ELSE IF lo = hi THEN EncodeCp(cps[lo])
    ELSE EncodeRange(cps, lo, (lo + hi) \div 2) \o EncodeRange(cps, (lo + hi) \div 2 + 1, hi)

\* text.encode("utf-8")
utf8_encode(cps) == EncodeRange(cps, 1, Len(cps))

\* b[i] is a continuation byte
IsCont(b, i) == i >= 1 /\ i <= Len(b) /\ b[i] >= 128 /\ b[i] < 192

\* b[i] starts a well-formed sequence of two bytes
IsLead2(b, i) == i >= 1 /\ i <= Len(b) /\ b[i] >= 194 /\ b[i] < 224 /\ IsCont(b, i + 1)

\* b[i] starts a well-formed sequence of three bytes
IsLead3(b, i) ==
    /\ i >= 1 /\ i <= Len(b) /\ b[i] >= 224 /\ b[i] < 240
    /\ IsCont(b, i + 1) /\ IsCont(b, i + 2)
    /\ (b[i] - 224) * 4096 + (b[i + 1] - 128) * 64 >= 2048

\* b[i] is a continuation byte of a well-formed sequence
IsTaken(b, i) ==
    IsCont(b, i) /\ (IsLead2(b, i - 1) \/ IsLead3(b, i - 1) \/ IsLead3(b, i - 2))

\* what the byte at index i contributes to the decoded text; an undecodable
\* byte contributes U+FFFD
DecodeAt(b, i) ==
    IF b[i] < 128 THEN <<b[i]>>
    ELSE IF IsLead2(b, i) THEN <<(b[i] - 192) * 64 + (b[i + 1] - 128)>>
    ELSE IF IsLead3(b, i)
    THEN <<(b[i] - 224) * 4096 + (b[i + 1] - 128) * 64 + (b[i + 2] - 128)>>
    ELSE IF IsTaken(b, i) THEN <<>>
    ELSE <<65533>>

RECURSIVE DecodeRange(_, _, _)
DecodeRange(b, lo, hi) ==
    IF lo > hi THEN <<>>
    ELSE IF lo = hi THEN DecodeAt(b, lo)
    ELSE DecodeRange(b, lo, (lo + hi) \div 2) \o DecodeRange(b, (lo + hi) \div 2 + 1, hi)

\* bytes.decode("utf-8", errors="replace")
utf8_decode_replace(b) == DecodeRange(b, 1, Len(b))

\* bytes.decode("utf-8"): ok is FALSE where Python raises UnicodeDecodeError
utf8_decode(b) ==
    [ok |-> \A i \in 1..Len(b) :
                b[i] < 128 \/ IsLead2(b, i) \/ IsLead3(b, i) \/ IsTaken(b, i),
     cps |-> DecodeRange(b, 1, Len(b))]

\* n.to_bytes(length, "big")
RECURSIVE to_bytes(_, _)
to_bytes(n, length) ==
    IF length = 0 THEN <<>> ELSE Append(to_bytes(n \div 256, length - 1), n % 256)

\* n.to_bytes(length, "little")
RECURSIVE to_bytes_little(_, _)
to_bytes_little(n, length) ==
    IF length = 0 THEN <<>> ELSE <<n % 256>> \o to_bytes_little(n \div 256, length - 1)

\* a length no file of the model reaches: f.read(n) returns what is left of
\* the file for every n from here on, so larger numbers need not be told apart
HugeLength == 1000000

\* int.from_bytes(b, "big"), saturating at HugeLength
RECURSIVE from_bytes(_)
from_bytes(b) ==
    IF b = <<>> THEN 0
    ELSE With(from_bytes(SubSeq(b, 1, Len(b) - 1)), LAMBDA high :
            IF high * 256 + b[Len(b)] >= HugeLength THEN HugeLength
            ELSE high * 256 + b[Len(b)])

\* int.from_bytes(b, "little"), saturating at HugeLength
RECURSIVE from_bytes_little(_)
from_bytes_little(b) ==
    IF b = <<>> THEN 0
    ELSE With(from_bytes_little(Tail(b)), LAMBDA high :
            IF high * 256 + b[1] >= HugeLength THEN HugeLength
            ELSE high * 256 + b[1])

\* f.read(n) at offset pos (0-based) of a file
ReadAt(file, pos, n) ==
    SubSeq(file, pos + 1, IF pos + n > Len(file) THEN Len(file) ELSE pos + n)

(***************************************************************************)
(* gzip.compress / gzip.decompress.  The member is modelled with a stored  *)
(* deflate block and an additive checksum in the place of CRC-32: header,  *)
(* block header, LEN, NLEN, the data, checksum, ISIZE.                     *)
(***************************************************************************)
GzipHeader == <<31, 139, 8, 0, 0, 0, 0, 0, 2, 255>>

RECURSIVE WeightedSum(_, _, _)
WeightedSum(data, lo, hi) ==
    IF lo > hi THEN 0
    ELSE IF lo = hi THEN (lo * data[lo]) % 65521
    ELSE (WeightedSum(data, lo, (lo + hi) \div 2)
             + WeightedSum(data, (lo + hi) \div 2 + 1, hi)) % 65521

Checksum(data) == WeightedSum(data, 1, Len(data))

gzip_compress(data) ==
    GzipHeader \o <<1>> \o to_bytes_little(Len(data), 2)
        \o to_bytes_little(65535 - Len(data), 2) \o data
        \o to_bytes_little(Checksum(data), 4) \o to_bytes_little(Len(data), 4)

\* ok is FALSE where gzip.decompress raises (BadGzipFile, zlib.error, EOFError)
gzip_decompress(payload) ==
    With(from_bytes_little(ReadAt(payload, 11, 2)), LAMBDA n :
    With(ReadAt(payload, 15, n), LAMBDA data :
        IF /\ Len(payload) = 15 + n + 8
           /\ SubSeq(payload, 1, 4) = SubSeq(GzipHeader, 1, 4)
           /\ payload[11] = 1
           /\ from_bytes_little(ReadAt(payload, 13, 2)) = 65535 - n
           /\ from_bytes_little(ReadAt(payload, 15 + n, 4)) = Checksum(data)
           /\ from_bytes_little(ReadAt(payload, 15 + n + 4, 4)) = n
        THEN [ok |-> TRUE, data |-> data]
        ELSE [ok |-> FALSE, data |-> <<>>]))

(***************************************************************************)
(* json.dumps(manifest, ensure_ascii=False) and json.loads, for objects    *)
(* whose values are strings and numbers, as the manifest is                *)
(***************************************************************************)
\* the JSON string literal of a text: quote and backslash are escaped, other
\* characters are kept as they are
RECURSIVE JsonEscapeRange(_, _, _)
JsonEscapeRange(cps, lo, hi) ==
    IF lo > hi THEN <<>>
    ELSE IF lo = hi
    THEN (IF cps[lo] = 34 \/ cps[lo] = 92 THEN <<92, cps[lo]>> ELSE <<cps[lo]>>)
    ELSE JsonEscapeRange(cps, lo, (lo + hi) \div 2)
             \o JsonEscapeRange(cps, (lo + hi) \div 2 + 1, hi)

JsonEscape(cps) == JsonEscapeRange(cps, 1, Len(cps))

JsonString(cps) == <<34>> \o JsonEscape(cps) \o <<34>>

\* "key": value of a member whose value is a string
JsonMember(key, cps) == JsonString(Codes(key)) \o Codes(": ") \o JsonString(cps)

\* json.dumps of the manifest; created is the text of time.time()
json_dumps(manifest) ==
    Codes("{") \o JsonMember("name", manifest.name) \o Codes(", ")
        \o JsonMember("entry", manifest.entry) \o Codes(", ")
        \o JsonString(Codes("created")) \o Codes(": ") \o manifest.created \o Codes(", ")
        \o JsonMember("py_version", manifest.py_version) \o Codes(", ")
        \o JsonMember("type", manifest.type) \o Codes("}")

IsWs(c) == c \in {32, 9, 10, 13}

IsDigit(c) == c >= 48 /\ c <= 57

RECURSIVE SkipWs(_, _)
SkipWs(t, i) == IF i <= Len(t) /\ IsWs(t[i]) THEN SkipWs(t, i + 1) ELSE i

JsonFail == [ok |-> FALSE, val |-> <<>>, next |-> 0]

\* the rest of a string literal from index i, the opening quote consumed
RECURSIVE JsonStringRest(_, _, _)
JsonStringRest(t, i, acc) ==
    IF i > Len(t) \/ t[i] < 32 THEN JsonFail
    ELSE IF t[i] = 34 THEN [ok |-> TRUE, val |-> acc, next |-> i + 1]
    ELSE IF t[i] # 92 THEN JsonStringRest(t, i + 1, Append(acc, t[i]))
    ELSE IF i + 1 > Len(t) THEN JsonFail
    ELSE IF t[i + 1] \in {34, 92, 47} THEN JsonStringRest(t, i + 2, Append(acc, t[i + 1]))
    ELSE IF t[i + 1] = 110 THEN JsonStringRest(t, i + 2, Append(acc, 10))
    ELSE IF t[i + 1] = 116 THEN JsonStringRest(t, i + 2, Append(acc, 9))
    ELSE JsonFail

RECURSIVE SkipDigits(_, _)
SkipDigits(t, i) == IF i <= Len(t) /\ IsDigit(t[i]) THEN SkipDigits(t, i + 1) ELSE i

\* a number literal at index i: digits, then optionally a point and digits
JsonNumber(t, i) ==
    With(SkipDigits(t, i), LAMBDA j :
        IF j = i \/ (t[i] = 48 /\ j > i + 1) THEN JsonFail
        ELSE IF j <= Len(t) /\ t[j] = 46
        THEN With(SkipDigits(t, j + 1), LAMBDA k :
                IF k = j + 1 THEN JsonFail
                ELSE [ok |-> TRUE, val |-> SubSeq(t, i, k - 1), next |-> k])
        ELSE [ok |-> TRUE, val |-> SubSeq(t, i, j - 1), next |-> j])

\* a string or a number at index i
JsonValue(t, i) ==
    IF i > Len(t) THEN JsonFail
    ELSE IF t[i] = 34 THEN JsonStringRest(t, i + 1, <<>>)
    ELSE JsonNumber(t, i)

\* the members of an object from index i on, the opening brace consumed:
\* val is the sequence of <<key, value>> pairs
RECURSIVE JsonMembers(_, _, _)
JsonMembers(t, i, acc) ==
    With(JsonValue(t, SkipWs(t, i)), LAMBDA k :
        IF ~k.ok \/ SkipWs(t, i) > Len(t) \/ t[SkipWs(t, i)] # 34 THEN JsonFail
        ELSE With(SkipWs(t, k.next), LAMBDA c :
            IF c > Len(t) \/ t[c] # 58 THEN JsonFail
            ELSE With(JsonValue(t, SkipWs(t, c + 1)), LAMBDA v :
                IF ~v.ok THEN JsonFail
                ELSE With(SkipWs(t, v.next), LAMBDA e :
                    IF e > Len(t) THEN JsonFail
                    ELSE IF t[e] = 125
                    THEN [ok |-> TRUE, val |-> Append(acc, <<k.val, v.val>>), next |-> e + 1]
                    ELSE IF t[e] = 44
                    THEN JsonMembers(t, e + 1, Append(acc, <<k.val, v.val>>))
                    ELSE JsonFail))))

\* json.loads(text): ok is FALSE where Python raises JSONDecodeError; isobj
\* tells a dict from a string or a number
json_loads(t) ==
    With(SkipWs(t, 1), LAMBDA i :
        IF i > Len(t) THEN [ok |-> FALSE, isobj |-> FALSE, val |-> <<>>]
        ELSE With(IF t[i] # 123 THEN JsonValue(t, i)
                  ELSE IF SkipWs(t, i + 1) <= Len(t) /\ t[SkipWs(t, i + 1)] = 125
                  THEN [ok |-> TRUE, val |-> <<>>, next |-> SkipWs(t, i + 1) + 1]
                  ELSE JsonMembers(t, i + 1, <<>>),
                  LAMBDA r :
                     [ok |-> r.ok /\ SkipWs(t, r.next) = Len(t) + 1,
                      isobj |-> t[i] = 123,
                      val |-> r.val]))

\* manifest.get(key) of a parsed object: the last member of that name
ManifestGet(members, key) ==
    LET hits == {i \in 1..Len(members) : members[i][1] = Codes(key)}
    IN IF hits = {} THEN <<>>
       ELSE members[CHOOSE i \in hits : \A j \in hits : j <= i][2]

(***************************************************************************)
(* compile_latin and the reading half of load_and_run_le                   *)
(***************************************************************************)
LE_MAGIC == Codes("LUWEXE1")

\* the manifest of a script file whose basename is stem + ext
Manifest(stem, ext, created) ==
    [name |-> stem, entry |-> stem \o Codes(ext), created |-> created,
     py_version |-> Codes("3.11"),
     type |-> IF StrLower(ext) = ".py" THEN Codes("python") ELSE Codes("luw")]

\* the layout of the .le file: magic, 8-byte length, manifest, payload
Container(manifest_bytes, payload) ==
    LE_MAGIC \o to_bytes(Len(manifest_bytes), 8) \o manifest_bytes \o payload

\* variant: the length field counts the characters of the manifest
compile_latin_char_count(script_bytes, stem, ext, created) ==
    With(json_dumps(Manifest(stem, ext, created)), LAMBDA manifest_text :
        LE_MAGIC \o to_bytes(Len(manifest_text), 8) \o utf8_encode(manifest_text)
            \o gzip_compress(script_bytes))

\* the bytes compile_latin writes to the .le file
compile_latin(script_bytes, stem, ext, created) ==
    Container(utf8_encode(json_dumps(Manifest(stem, ext, created))),
              gzip_compress(script_bytes))

\* the script lines of a text: text.splitlines() for "\n" line ends
splitlines(text) ==
    With(SplitOn(text, "\n", ""), LAMBDA fields :
        IF fields[Len(fields)] = "" THEN SubSeq(fields, 1, Len(fields) - 1) ELSE fields)

\* "if not line or line.strip().startswith('#'): continue"
skipped(line) == line = "" \/ StartsWith(Strip(line), "#")
(***************************************************************************)
(* The running program: the control thread (the loop of app.py that feeds  *)
(* lines to handle_input and, at the end of a script, waits on the         *)
(* completion barrier) and thread_count workers.                           *)
(***************************************************************************)
\* number of worker threads (--thread-count)
thread_count == 2

\* number of batch reads that may time out in one run
MaxTimeouts == 1

\* Worker(i, ...) for i in range(self.thread_count)
Workers == 0..(thread_count - 1)

\* the lines a run of the worker-pool specification draws from
Lines ==
    {"upper a", "calc", "nope x", "echo hi", "!mt calc & upper a", "!mt sleep 15 & upper a",
     "!mt echo a & echo b"}

\* the lines a run of the stage specification draws from
StageLines ==
    {"upper hello", "echo hi", "nope x", "calc", "upper reverse hello",
     "upper reverse reverse ab", "nope reverse ab", "echo upper hi",
     "!mt upper a & reverse b", "!mt echo a & echo b", "!mt calc & nope reverse x",
     "!mt upper reverse ab", "!SuppressDebug", "!resumedebug", "!pwsh ls", "!cmd dir",
     "!cmd", "alias u=upper", "alias e=echo", "unalias u", "u x", "e hi", "   ",
     "upper calc x", "echo calc", "echo \"upper\" hello", "e \"upper\" hello",
     "!mt upper a & pwd & reverse b", "!mt !pwsh pwd & echo a",
     "!mt echo upper $x & set X=1", "!mt upper reverse x$", "upper $X"}

VARIABLES
    task_queue,        \* Master.task_queue: FIFO of [id, command, args]
    unfinished_tasks,  \* the counter behind Queue.task_done / Queue.join
    result_queue,      \* Master.result_queue: FIFO of [worker, text] (+ id, command)
    wpc,               \* position of each worker in Worker.run
    wtask,             \* the task a worker holds
    wresult,           \* the local variable result of a worker
    owed,              \* history: results a worker has yet to publish for its task
    S,                 \* session: ALIASES, os.environ, working directory
    debug_suppressed,  \* logger._DEBUG_SUPPRESSED
    pc,                \* position of the control thread
    hi,                \* the activation record of the running handle_input call
    timeouts,          \* number of batch reads that have timed out so far
    run,               \* the script or container run of app.py, NoRun at the prompt
    registered,        \* entries put into commands.COMMANDS after import: name -> function
    call               \* the last direct call of _run_builtin and what came of it

vars == <<task_queue, unfinished_tasks, result_queue, wpc, wtask, wresult, owed, S,
          debug_suppressed, pc, hi, timeouts, run, registered, call>>

\* history: a task of the running handle_input call is identified by its rank
\* among the tasks of the call; a task of an earlier call has the id StaleId
StaleId == 0

\* what a read that timed out leaves in hi.reads
TimedOut == -1

NoId == StaleId

IdleTask == [id |-> NoId, command |-> "", args |-> EmptyArgs]

InitialSession == [ALIASES |-> <<>>, environ |-> <<>>, cwd |-> "/"]

NoCall ==
    [line |-> "", command_line |-> "", command |-> "", stage |-> "none",
     enq |-> <<>>, reads |-> <<>>, output |-> <<>>, calls |-> <<>>, subs |-> <<>>,
     subcmds |-> <<>>, kinds |-> <<>>, global_shell |-> "", task_count |-> 0,
     reads_left |-> 0,
     S0 |-> InitialSession]

\* no direct call of _run_builtin has been made
NotCalled ==
    [made |-> FALSE, command |-> "", args |-> <<>>, S0 |-> InitialSession,
     handled |-> FALSE, out |-> "", raised |-> FALSE]

\* the run of app.py: mode is "prompt" for the interactive loop, "script"
\* for --script, "compile" for --compile and "binary" for --binary
NoRun ==
    [mode |-> "prompt", phase |-> "none", text |-> "", stem |-> <<>>, ext |-> "",
     created |-> <<>>, le |-> <<>>, manifest |-> <<>>, isobj |-> FALSE,
     script_bytes |-> <<>>, lines |-> <<>>, dispatched |-> <<>>, error |-> "",
     written |-> FALSE]

Init ==
    /\ task_queue = <<>>
    /\ unfinished_tasks = 0
    /\ result_queue = <<>>
    /\ wpc = [w \in Workers |-> "get"]
    /\ wtask = [w \in Workers |-> IdleTask]
    /\ wresult = [w \in Workers |-> ""]
    /\ owed = [w \in Workers |-> 0]
    /\ S = InitialSession
    /\ debug_suppressed = FALSE
    /\ pc = "prompt"
    /\ hi = NoCall
    /\ timeouts = 0
    /\ run = NoRun
    /\ registered = <<>>
    /\ call = NotCalled

Running == pc \notin {"exited", "crashed"}

\* variant: the task is put into the queue twice
add_task_twice(id, t) ==
    /\ task_queue' = task_queue \o <<[id |-> id, command |-> t.command, args |-> t.args],
                                      [id |-> id, command |-> t.command, args |-> t.args]>>
    /\ unfinished_tasks' = unfinished_tasks + 2

\* Master.add_task: task_queue.put((command, args))
add_task(id, t) ==
    /\ task_queue' = Append(task_queue, [id |-> id, command |-> t.command, args |-> t.args])
    /\ unfinished_tasks' = unfinished_tasks + 1

\* handle_input(master, line) from the prompt or the script, up to its return,
\* its exception, its single enqueue or the start of the subcommand loop
HandleInputFrom(lines) ==
    /\ pc = "prompt"
    /\ \E line \in lines, shellErr \in BOOLEAN :
        \E o \in {handle_input_stages(line, S, shellErr)} :
           /\ (shellErr => o.stage = "shell" /\ o.output # <<>>)
           /\ S' = o.S
           /\ debug_suppressed' = CASE o.debug = "suppress" -> TRUE
                                    [] o.debug = "resume" -> FALSE
                                    [] OTHER -> debug_suppressed
           /\ hi' = [NoCall EXCEPT !.line = line,
                                   !.command_line = o.command_line,
                                   !.command = o.command, !.stage = o.stage,
                                   !.output = o.output, !.calls = o.calls,
                                   !.subcmds = o.subs, !.subs = o.subs,
                                   !.global_shell = o.global_shell,
                                   !.enq = IF o.next = "await" THEN <<1>> ELSE <<>>,
                                   !.S0 = S]
           /\ pc' = CASE o.next = "return" -> "return"
                      [] o.next = "raise" -> "crashed"
                      [] o.next = "batch" -> "batch"
                      [] o.next = "await" -> "await"
           /\ IF o.next = "await" THEN add_task(1, o.task)
              ELSE UNCHANGED <<task_queue, unfinished_tasks>>
    /\ UNCHANGED <<result_queue, wpc, wtask, wresult, owed, timeouts, registered, call>>

HandleInput == HandleInputFrom(Lines) /\ UNCHANGED run

HandleInputStage == HandleInputFrom(StageLines) /\ UNCHANGED run

\* variant: the read does not block, an empty channel is passed over
AwaitResultNoWait ==
    /\ pc = "await"
    /\ IF result_queue # <<>>
       THEN /\ hi' = [hi EXCEPT !.reads = Append(@, Head(result_queue).id),
                                 !.output = Append(@, Head(result_queue).text)]
            /\ result_queue' = Tail(result_queue)
       ELSE UNCHANGED <<hi, result_queue>>
    /\ pc' = "return"
    /\ UNCHANGED <<task_queue, unfinished_tasks, wpc, wtask, wresult, owed, S,
                   debug_suppressed, timeouts, run, registered, call>>

\* the blocking rq.get() of single-command dispatch and the print of its result
AwaitResult ==
    /\ pc = "await"
    /\ result_queue # <<>>
    /\ hi' = [hi EXCEPT !.reads = Append(@, Head(result_queue).id),
                        !.output = Append(@, Head(result_queue).text)]
    /\ result_queue' = Tail(result_queue)
    /\ pc' = "return"
    /\ UNCHANGED <<task_queue, unfinished_tasks, wpc, wtask, wresult, owed, S,
                   debug_suppressed, timeouts, run, registered, call>>

\* variant: the gather loop stops one read short
gather_count_short(task_count) == task_count - 1

\* for _ in range(task_count): the number of reads of the gather loop
gather_count(task_count) == task_count

\* variant: every subcommand that is dispatched counts as a task to read for
BatchSubCountsAll ==
    /\ pc = "batch"
    /\ hi.subs # <<>>
    /\ \E shellErr \in BOOLEAN :
        \E o \in {dispatch_sub(Head(hi.subs), hi.global_shell, S, shellErr)} :
        LET enq == o.task # NoTask
            count == hi.task_count + (IF o.kind # "skip" THEN 1 ELSE 0)
            id == count
            last == Len(hi.subs) = 1
        IN /\ (shellErr => o.kind = "shell" /\ o.output # <<>>)
           /\ S' = o.S
           /\ hi' = [hi EXCEPT !.subs = Tail(@), !.output = @ \o o.output,
                               !.calls = @ \o o.calls,
                               !.kinds = Append(@, o.kind),
                               !.enq = IF enq THEN Append(@, id) ELSE @,
                               !.task_count = count,
                               !.reads_left = IF last THEN gather_count(count) ELSE 0]
           /\ pc' = IF o.kind = "raise" THEN "crashed"
                    ELSE IF ~last THEN "batch"
                    ELSE IF gather_count(count) > 0 THEN "gather" ELSE "return"
           /\ IF enq THEN add_task(id, o.task)
              ELSE UNCHANGED <<task_queue, unfinished_tasks>>
    /\ UNCHANGED <<result_queue, wpc, wtask, wresult, owed, debug_suppressed, timeouts, run, registered, call>>

\* one subcommand of a batch line; the gather loop follows the last one
BatchSub ==
    /\ pc = "batch"
    /\ hi.subs # <<>>
    /\ \E shellErr \in BOOLEAN :
        \E o \in {dispatch_sub(Head(hi.subs), hi.global_shell, S, shellErr)} :
        LET enq == o.task # NoTask
            count == hi.task_count + (IF enq THEN 1 ELSE 0)
            id == count
            last == Len(hi.subs) = 1
        IN /\ (shellErr => o.kind = "shell" /\ o.output # <<>>)
           /\ S' = o.S
           /\ hi' = [hi EXCEPT !.subs = Tail(@), !.output = @ \o o.output,
                               !.calls = @ \o o.calls,
                               !.kinds = Append(@, o.kind),
                               !.enq = IF enq THEN Append(@, id) ELSE @,
                               !.task_count = count,
                               !.reads_left = IF last THEN gather_count(count) ELSE 0]
           /\ pc' = IF o.kind = "raise" THEN "crashed"
                    ELSE IF ~last THEN "batch"
                    ELSE IF gather_count(count) > 0 THEN "gather" ELSE "return"
           /\ IF enq THEN add_task(id, o.task)
              ELSE UNCHANGED <<task_queue, unfinished_tasks>>
    /\ UNCHANGED <<result_queue, wpc, wtask, wresult, owed, debug_suppressed, timeouts, run, registered, call>>

\* result_queue.get(timeout=10) returns a result
BatchRead ==
    /\ pc = "gather"
    /\ hi.reads_left > 0
    /\ result_queue # <<>>
    /\ hi' = [hi EXCEPT !.reads = Append(@, Head(result_queue).id),
                        !.output = Append(@, Head(result_queue).text),
                        !.reads_left = @ - 1]
    /\ result_queue' = Tail(result_queue)
    /\ pc' = IF hi.reads_left > 1 THEN "gather" ELSE "return"
    /\ UNCHANGED <<task_queue, unfinished_tasks, wpc, wtask, wresult, owed, S,
                   debug_suppressed, timeouts, run, registered, call>>

\* variant: the first timeout ends the gather loop
BatchTimeoutBreak ==
    /\ pc = "gather"
    /\ hi.reads_left > 0
    /\ result_queue = <<>>
    /\ timeouts < MaxTimeouts
    /\ timeouts' = timeouts + 1
    /\ hi' = [hi EXCEPT !.reads = Append(@, TimedOut), !.reads_left = 0]
    /\ pc' = "return"
    /\ UNCHANGED <<task_queue, unfinished_tasks, result_queue, wpc, wtask, wresult, owed, S,
                   debug_suppressed, run, registered, call>>

\* result_queue.get(timeout=10) raises queue.Empty: nothing arrived in time;
\* the except clause reports it and the for loop goes on
BatchTimeout ==
    /\ pc = "gather"
    /\ hi.reads_left > 0
    /\ result_queue = <<>>
    /\ timeouts < MaxTimeouts
    /\ timeouts' = timeouts + 1
    /\ hi' = [hi EXCEPT !.reads = Append(@, TimedOut), !.reads_left = @ - 1]
    /\ pc' = IF hi.reads_left > 1 THEN "gather" ELSE "return"
    /\ UNCHANGED <<task_queue, unfinished_tasks, result_queue, wpc, wtask, wresult, owed, S,
                   debug_suppressed, run, registered, call>>

\* history: the tasks and results still in flight belong to an earlier call
MarkStale(q) == [i \in 1..Len(q) |-> [q[i] EXCEPT !.id = StaleId]]

\* variant: the results left on the channel are discarded on return
ReturnDrained ==
    /\ pc = "return"
    /\ pc' = "prompt"
    /\ hi' = NoCall
    /\ task_queue' = MarkStale(task_queue)
    /\ result_queue' = <<>>
    /\ wtask' = [w \in Workers |-> [wtask[w] EXCEPT !.id = StaleId]]
    /\ UNCHANGED <<unfinished_tasks, wpc, wresult, owed, S, debug_suppressed, timeouts, run, registered, call>>

\* handle_input returns to the loop of app.py; its locals are gone
Return ==
    /\ pc = "return"
    /\ pc' = "prompt"
    /\ hi' = NoCall
    /\ task_queue' = MarkStale(task_queue)
    /\ result_queue' = MarkStale(result_queue)
    /\ wtask' = [w \in Workers |-> [wtask[w] EXCEPT !.id = StaleId]]
    /\ UNCHANGED <<unfinished_tasks, wpc, wresult, owed, S, debug_suppressed, timeouts, run, registered, call>>

\* end of the script: master.wait_for_completion() is called
BeginWait ==
    /\ pc = "prompt"
    /\ pc' = "barrier"
    /\ UNCHANGED <<task_queue, unfinished_tasks, result_queue, wpc, wtask, wresult, owed, S,
                   debug_suppressed, hi, timeouts, run, registered, call>>

\* task_queue.join() returns, then the run exits
wait_for_completion ==
    /\ pc = "barrier"
    /\ unfinished_tasks = 0
    /\ pc' = "exited"
    /\ UNCHANGED <<task_queue, unfinished_tasks, result_queue, wpc, wtask, wresult, owed, S,
                   debug_suppressed, hi, timeouts, run, registered, call>>

\* variant: the worker takes the task that was put into the queue last
WorkerGetLast(w) ==
    /\ Running
    /\ wpc[w] = "get"
    /\ task_queue # <<>>
    /\ wtask' = [wtask EXCEPT ![w] = task_queue[Len(task_queue)]]
    /\ task_queue' = SubSeq(task_queue, 1, Len(task_queue) - 1)
    /\ wpc' = [wpc EXCEPT ![w] = "run"]
    /\ owed' = [owed EXCEPT ![w] = 1]
    /\ UNCHANGED <<unfinished_tasks, result_queue, wresult, S, debug_suppressed, pc, hi,
                   timeouts, run, registered, call>>

\* task = self.task_queue.get()
WorkerGet(w) ==
    /\ Running
    /\ wpc[w] = "get"
    /\ task_queue # <<>>
    /\ wtask' = [wtask EXCEPT ![w] = Head(task_queue)]
    /\ task_queue' = Tail(task_queue)
    /\ wpc' = [wpc EXCEPT ![w] = "run"]
    /\ owed' = [owed EXCEPT ![w] = 1]
    /\ UNCHANGED <<unfinished_tasks, result_queue, wresult, S, debug_suppressed, pc, hi,
                   timeouts, run, registered, call>>

\* the function commands.COMMANDS.get(command) finds: the name of a command
\* function, or "" for None
lookup(command, added) ==
    IF DictHas(added, command) THEN DictGet(added, command, "")
    ELSE IF command \in COMMANDS THEN command
    ELSE ""

\* the try block for a command that is found under a name put in at run time
added_result(command, func, args, environ) ==
    With(CallCommand(func, args, environ), LAMBDA r :
        IF r.raised
        THEN [text |-> "Fehler bei " \o command \o ": " \o r.val, survives |-> TRUE]
        ELSE [text |-> r.val, survives |-> TRUE])

\* variant: the worker uses the registry as it was when the pool started
WorkerRunImportTime(w) ==
    /\ Running
    /\ wpc[w] = "run"
    /\ \E r \in {worker_result(wtask[w].command, wtask[w].args, S.environ)} :
          /\ wresult' = [wresult EXCEPT ![w] = r.text]
          /\ wpc' = [wpc EXCEPT ![w] = IF r.survives THEN "finally1" ELSE "dead"]
    /\ UNCHANGED <<task_queue, unfinished_tasks, result_queue, wtask, owed, S,
                   debug_suppressed, pc, hi, timeouts, run, registered, call>>

\* the try block: look the command up, call it, turn an exception into text
WorkerRun(w) ==
    /\ Running
    /\ wpc[w] = "run"
    /\ \E r \in {IF DictHas(registered, wtask[w].command)
                  THEN added_result(wtask[w].command,
                                    lookup(wtask[w].command, registered),
                                    wtask[w].args, S.environ)
                  ELSE worker_result(wtask[w].command, wtask[w].args, S.environ)} :
          /\ wresult' = [wresult EXCEPT ![w] = r.text]
          /\ wpc' = [wpc EXCEPT ![w] = IF r.survives THEN "finally1" ELSE "dead"]
    /\ UNCHANGED <<task_queue, unfinished_tasks, result_queue, wtask, owed, S,
                   debug_suppressed, pc, hi, timeouts, run, registered, call>>

\* the two statements of the finally block, in the order of the source:
\* self.task_queue.task_done(), then self._result_put((self.id, result))
FinallyOrder == <<"task_done", "put">>

\* variant: nothing is published for a command that is not registered
WorkerStepKnownOnly(w, what) ==
    IF what = "task_done"
    THEN /\ unfinished_tasks' = unfinished_tasks - 1
         /\ UNCHANGED <<result_queue, owed>>
    ELSE IF wtask[w].command \notin COMMANDS
    THEN UNCHANGED <<result_queue, owed, unfinished_tasks>>
    ELSE /\ result_queue' = Append(result_queue,
                                   [worker |-> w, text |-> wresult[w], id |-> wtask[w].id,
                                    command |-> wtask[w].command])
         /\ owed' = [owed EXCEPT ![w] = @ - 1]
         /\ UNCHANGED unfinished_tasks

WorkerStep(w, what) ==
    IF what = "task_done"
    THEN /\ unfinished_tasks' = unfinished_tasks - 1
         /\ UNCHANGED <<result_queue, owed>>
    ELSE /\ result_queue' = Append(result_queue,
                                   [worker |-> w, text |-> wresult[w], id |-> wtask[w].id,
                                    command |-> wtask[w].command])
         /\ owed' = [owed EXCEPT ![w] = @ - 1]
         /\ UNCHANGED unfinished_tasks

\* finally: first statement
WorkerFinally1(w) ==
    /\ Running
    /\ wpc[w] = "finally1"
    /\ WorkerStep(w, FinallyOrder[1])
    /\ wpc' = [wpc EXCEPT ![w] = "finally2"]
    /\ UNCHANGED <<task_queue, wtask, wresult, S, debug_suppressed, pc, hi, timeouts, run, registered, call>>

\* finally: second statement, then back to the top of the loop
WorkerFinally2(w) ==
    /\ Running
    /\ wpc[w] = "finally2"
    /\ WorkerStep(w, FinallyOrder[2])
    /\ wpc' = [wpc EXCEPT ![w] = "get"]
    \* task and result are dead at the top of the loop: both are assigned
    \* before they are read again
    /\ wtask' = [wtask EXCEPT ![w] = IdleTask]
    /\ wresult' = [wresult EXCEPT ![w] = ""]
    /\ UNCHANGED <<task_queue, S, debug_suppressed, pc, hi, timeouts, run, registered, call>>

Next ==
    \/ HandleInput
    \/ AwaitResult
    \/ BatchSub
    \/ BatchRead
    \/ BatchTimeout
    \/ Return
    \/ BeginWait
    \/ wait_for_completion
    \/ \E w \in Workers : WorkerGet(w)
    \/ \E w \in Workers : WorkerRun(w)
    \/ \E w \in Workers : WorkerFinally1(w)
    \/ \E w \in Workers : WorkerFinally2(w)

Spec == Init /\ [][Next]_vars

\* the workers are threads that the scheduler runs fairly, and a blocking
\* get of the control thread returns once an item is there
Fairness ==
    /\ WF_vars(AwaitResult)
    /\ WF_vars(BatchRead)
    /\ WF_vars(Return)
    /\ \A w \in Workers :
          /\ WF_vars(WorkerGet(w))
          /\ WF_vars(WorkerRun(w))
          /\ WF_vars(WorkerFinally1(w))
          /\ WF_vars(WorkerFinally2(w))

LiveSpec == Init /\ [][Next]_vars /\ Fairness

\* the same program fed from StageLines, on a machine where no read times out
StageNext ==
    \/ HandleInputStage
    \/ AwaitResult
    \/ BatchSub
    \/ BatchRead
    \/ Return
    \/ BeginWait
    \/ wait_for_completion
    \/ \E w \in Workers : WorkerGet(w)
    \/ \E w \in Workers : WorkerRun(w)
    \/ \E w \in Workers : WorkerFinally1(w)
    \/ \E w \in Workers : WorkerFinally2(w)

StageSpec == Init /\ [][StageNext]_vars

\* the variable names and values the session lines are built from
SessionNames == {"FOO", "$FOO", "upper"}

SessionValues == {"bar", "b=c", "1"}

SetLine(N, V) == "set " \o N \o "=" \o V

GetLine(N) == "get " \o N

\* the lines a run of the session specification draws from
SessionLines ==
    {SetLine(N, V) : N \in SessionNames, V \in SessionValues}
        \cup {GetLine(N) : N \in SessionNames}

HandleInputSession == HandleInputFrom(SessionLines) /\ UNCHANGED run

\* the same program fed with set and get lines only: nothing is enqueued
SessionNext ==
    \/ HandleInputSession
    \/ Return

SessionSpec == Init /\ [][SessionNext]_vars

\* the lines a run of the alias specification draws from: definitions that
\* chain, that refer to themselves and that form a cycle, and lines that use them
AliasLines ==
    {"alias a=b", "alias b=a", "alias b=echo", "alias a='a x'", "alias a=a",
     "unalias a", "a", "b hi", "echo hi", "b \"x y\" z", "b \"upper\" hi"}

HandleInputAlias == HandleInputFrom(AliasLines) /\ UNCHANGED run

\* the same program fed with alias definitions and uses
AliasNext ==
    \/ HandleInputAlias
    \/ AwaitResult
    \/ Return
    \/ \E w \in Workers : WorkerGet(w)
    \/ \E w \in Workers : WorkerRun(w)
    \/ \E w \in Workers : WorkerFinally1(w)
    \/ \E w \in Workers : WorkerFinally2(w)

AliasSpec == Init /\ [][AliasNext]_vars

(***************************************************************************)
(* Script mode, compilation and container execution, app.py                *)
(***************************************************************************)
\* the script files of the model
Scripts ==
    {"upper a\n# note\n\necho hi\n",
     "   \ncalc\n  # x\nnope y",
     "!mt sleep 15 & upper a\n!cmd dir\nupper b\n"}

\* basenames of script files: stem and extension
Stems == {Codes("s"), <<233>>, Codes("a\"b")}

\* a manifest and a payload that load_and_run_le accepts
GoodManifest == utf8_encode(json_dumps(Manifest(Codes("s"), ".luw", Codes("1.5"))))

GoodPayload == gzip_compress(Codes("upper a\n"))

\* a manifest that is no JSON text and a payload that is no gzip member
BadManifest == Codes("{name: s}")

BadPayload == SubSeq(GoodPayload, 1, Len(GoodPayload) - 1)

\* the .le files handed to --binary that compile_latin has not written
ForeignContainers ==
    {<<0>> \o Tail(Container(GoodManifest, GoodPayload)),
     <<0>> \o Tail(Container(BadManifest, BadPayload)),
     Container(BadManifest, GoodPayload),
     Container(BadManifest, BadPayload),
     Container(GoodManifest, BadPayload),
     Container(<<255>> \o GoodManifest, GoodPayload),
     Container(Codes("\"luw\""), GoodPayload),
     Codes("LUW")}

ScriptRuns ==
    {[NoRun EXCEPT !.mode = "script", !.phase = "open", !.text = t] : t \in Scripts}
    \cup {[NoRun EXCEPT !.mode = "compile", !.phase = "compile", !.text = t,
                        !.stem = n, !.ext = e, !.created = Codes("1.5")] :
             t \in Scripts, n \in Stems, e \in {".luw", ".py"}}
    \cup {[NoRun EXCEPT !.mode = "binary", !.phase = "open", !.le = c] :
             c \in ForeignContainers}

ScriptInit ==
    /\ task_queue = <<>>
    /\ unfinished_tasks = 0
    /\ result_queue = <<>>
    /\ wpc = [w \in Workers |-> "get"]
    /\ wtask = [w \in Workers |-> IdleTask]
    /\ wresult = [w \in Workers |-> ""]
    /\ owed = [w \in Workers |-> 0]
    /\ S = InitialSession
    /\ debug_suppressed = FALSE
    /\ pc = "load"
    /\ hi = NoCall
    /\ timeouts = 0
    /\ run \in ScriptRuns
    /\ registered = <<>>
    /\ call = NotCalled

\* the control thread stays where it is and the pool is not touched
RunOnly ==
    UNCHANGED <<task_queue, unfinished_tasks, result_queue, wpc, wtask, wresult, owed, S,
                debug_suppressed, hi, timeouts, registered, call>>

\* load_and_run_le or the script loop ends with an exception or a return that
\* is followed by sys.exit(0), without a call of wait_for_completion
ExitWith(error) ==
    /\ pc' = "exited"
    /\ run' = [run EXCEPT !.phase = "ended", !.error = error]

\* --compile: compile_latin writes the .le file and the process exits; the
\* file is then run with --binary
Compile ==
    /\ pc = "load"
    /\ run.phase = "compile"
    /\ run' = [run EXCEPT !.mode = "binary", !.phase = "open",
                          !.le = compile_latin(utf8_encode(Codes(run.text)), run.stem,
                                               run.ext, run.created)]
    /\ UNCHANGED pc
    /\ RunOnly

\* --script: open(SCRIPT_PATH) and the start of "for raw in f"
ScriptOpen ==
    /\ pc = "load"
    /\ run.mode = "script"
    /\ run.phase = "open"
    /\ run' = [run EXCEPT !.phase = "lines", !.lines = splitlines(run.text)]
    /\ pc' = "prompt"
    /\ RunOnly

\* load_and_run_le: magic = f.read(len(_LE_MAGIC)); if magic != _LE_MAGIC: raise
LeMagic ==
    /\ pc = "load"
    /\ run.mode = "binary"
    /\ run.phase = "open"
    /\ IF ReadAt(run.le, 0, Len(LE_MAGIC)) # LE_MAGIC
       THEN ExitWith("Not a LUW binary (.le) or unsupported version")
       ELSE /\ run' = [run EXCEPT !.phase = "manifest"]
            /\ UNCHANGED pc
    /\ RunOnly

\* variant: a manifest that cannot be parsed is let through to the payload check
LeManifestUnchecked ==
    /\ pc = "load"
    /\ run.phase = "manifest"
    /\ \E d \in {utf8_decode(ReadAt(run.le, Len(LE_MAGIC) + 8,
                                    from_bytes(ReadAt(run.le, Len(LE_MAGIC), 8))))} :
       \E m \in {IF d.ok THEN json_loads(d.cps)
                 ELSE [ok |-> FALSE, isobj |-> FALSE, val |-> <<>>]} :
          /\ run' = [run EXCEPT !.phase = "payload", !.manifest = m.val,
                                !.isobj = m.isobj]
          /\ UNCHANGED pc
    /\ RunOnly

\* manifest_len, manifest_bytes, json.loads(manifest_bytes.decode("utf-8"))
LeManifest ==
    /\ pc = "load"
    /\ run.phase = "manifest"
    /\ \E d \in {utf8_decode(ReadAt(run.le, Len(LE_MAGIC) + 8,
                                    from_bytes(ReadAt(run.le, Len(LE_MAGIC), 8))))} :
       \E m \in {IF d.ok THEN json_loads(d.cps)
                 ELSE [ok |-> FALSE, isobj |-> FALSE, val |-> <<>>]} :
          IF ~m.ok THEN ExitWith("Invalid manifest")
          ELSE /\ run' = [run EXCEPT !.phase = "payload", !.manifest = m.val,
                                     !.isobj = m.isobj]
               /\ UNCHANGED pc
    /\ RunOnly

\* payload = f.read(); script_bytes = gzip.decompress(payload)
LePayload ==
    /\ pc = "load"
    /\ run.phase = "payload"
    /\ \E z \in {gzip_decompress(
                    ReadAt(run.le,
                           Len(LE_MAGIC) + 8
                               + Len(ReadAt(run.le, Len(LE_MAGIC) + 8,
                                            from_bytes(ReadAt(run.le, Len(LE_MAGIC), 8)))),
                           Len(run.le)))} :
          IF ~z.ok THEN ExitWith("Invalid payload (not gzip?)")
          ELSE /\ run' = [run EXCEPT !.phase = "branch", !.script_bytes = z.data]
               /\ UNCHANGED pc
    /\ RunOnly

\* manifest.get("type"): a python payload is written next to the .le file and
\* run by the interpreter, a LUW payload is split into lines
LeBranch ==
    /\ pc = "load"
    /\ run.phase = "branch"
    /\ IF ~run.isobj THEN ExitWith("AttributeError: no attribute 'get'")
       ELSE IF ManifestGet(run.manifest, "type") = Codes("python")
       THEN /\ pc' = "exited"
            /\ run' = [run EXCEPT !.phase = "ended", !.written = TRUE]
       ELSE /\ pc' = "prompt"
            /\ run' = [run EXCEPT !.phase = "lines",
                          !.lines = splitlines(Text(utf8_decode_replace(run.script_bytes)))]
    /\ RunOnly

\* "if not line or line.strip().startswith('#'): continue"
ScriptSkip ==
    /\ pc = "prompt"
    /\ run.phase = "lines"
    /\ run.lines # <<>>
    /\ skipped(Head(run.lines))
    /\ run' = [run EXCEPT !.lines = Tail(@)]
    /\ UNCHANGED pc
    /\ RunOnly

\* dispatch.handle_input(master, line) for the next line of the file
ScriptLine ==
    /\ run.phase = "lines"
    /\ run.lines # <<>>
    /\ ~skipped(Head(run.lines))
    /\ HandleInputFrom({Head(run.lines)})
    /\ run' = [run EXCEPT !.lines = Tail(@), !.dispatched = Append(@, Head(run.lines))]

\* the lines are used up: master.wait_for_completion() is called
ScriptEnd ==
    /\ pc = "prompt"
    /\ run.phase = "lines"
    /\ run.lines = <<>>
    /\ pc' = "barrier"
    /\ run' = [run EXCEPT !.phase = "ended"]
    /\ RunOnly

\* handle_input raised: "except Exception as e" logs the error, sys.exit(0)
ScriptAbort ==
    /\ pc = "crashed"
    /\ run.phase = "lines"
    /\ ExitWith("handle_input raised")
    /\ RunOnly

ScriptNext ==
    \/ Compile
    \/ ScriptOpen
    \/ LeMagic
    \/ LeManifest
    \/ LePayload
    \/ LeBranch
    \/ ScriptSkip
    \/ ScriptLine
    \/ ScriptEnd
    \/ ScriptAbort
    \/ AwaitResult
    \/ BatchSub
    \/ BatchRead
    \/ BatchTimeout
    \/ Return
    \/ wait_for_completion
    \/ \E w \in Workers : WorkerGet(w)
    \/ \E w \in Workers : WorkerRun(w)
    \/ \E w \in Workers : WorkerFinally1(w)
    \/ \E w \in Workers : WorkerFinally2(w)

ScriptSpec == ScriptInit /\ [][ScriptNext]_vars

(***************************************************************************)
(* The registry commands.COMMANDS is a module-level dict that the worker    *)
(* reads on every task; code that embeds the shell may put entries into it *)
(* and take them out while the pool runs.                                  *)
(***************************************************************************)
\* the names such code adds, with the command function each is bound to
LateCommands == <<<<"late", "upper">>, <<"twice", "reverse">>>>

\* the lines a run of the registry specification draws from: the first token
\* is the only place where a late name occurs
RegistryLines == {"late x", "twice ab", "upper a", "nope x"}

HandleInputRegistry == HandleInputFrom(RegistryLines) /\ UNCHANGED run

\* commands.COMMANDS[name] = func
Register ==
    /\ Running
    /\ \E i \in 1..Len(LateCommands) :
          /\ ~DictHas(registered, LateCommands[i][1])
          /\ registered' = DictSet(registered, LateCommands[i][1], LateCommands[i][2])
    /\ UNCHANGED <<task_queue, unfinished_tasks, result_queue, wpc, wtask, wresult, owed, S,
                   debug_suppressed, pc, hi, timeouts, run, call>>

\* del commands.COMMANDS[name]
Unregister ==
    /\ Running
    /\ \E i \in 1..Len(registered) :
          registered' = DictPop(registered, registered[i][1])
    /\ UNCHANGED <<task_queue, unfinished_tasks, result_queue, wpc, wtask, wresult, owed, S,
                   debug_suppressed, pc, hi, timeouts, run, call>>

RegistryNext ==
    \/ HandleInputRegistry
    \/ Register
    \/ Unregister
    \/ AwaitResult
    \/ Return
    \/ \E w \in Workers : WorkerGet(w)
    \/ \E w \in Workers : WorkerRun(w)
    \/ \E w \in Workers : WorkerFinally1(w)
    \/ \E w \in Workers : WorkerFinally2(w)

RegistrySpec == Init /\ [][RegistryNext]_vars

(***************************************************************************)
(* _run_builtin called on its own, with a name and an argument mapping    *)
(* drawn from the sets below, in the session as the calls before left it. *)
(***************************************************************************)
CallNames == BUILTIN_NAMES \cup {"upper", "lupdate", "Echo", ""}

CallTexts ==
    {"", "$env:FOO", "FOO=bar", "=x", "a 'b", "/tmp", "/nowhere", "upper", Surrogate}

CallArgs ==
    {<<>>} \cup {StrArg(v) : v \in CallTexts} \cup {[k \in {"path"} |-> "/tmp"]}

RunBuiltin ==
    /\ pc = "prompt"
    /\ \E command \in CallNames, args \in CallArgs :
        \E r \in {run_builtin(command, args, S)} :
            /\ call' = [made |-> TRUE, command |-> command, args |-> args, S0 |-> S,
                        handled |-> r.handled, out |-> r.out, raised |-> r.raised]
            /\ S' = r.S
    /\ UNCHANGED <<task_queue, unfinished_tasks, result_queue, wpc, wtask, wresult, owed,
                   debug_suppressed, pc, hi, timeouts, run, registered>>

BuiltinNext == RunBuiltin

BuiltinSpec == Init /\ [][BuiltinNext]_vars

(***************************************************************************)
(* A pool of one worker, Master(1): only worker 0 exists and runs.  No read *)
(* of a batch line times out.                                              *)
(***************************************************************************)
OneWorkerLines ==
    {"upper a", "!mt upper a & reverse b", "!mt calc & upper a & nope x",
     "!mt echo a & upper b", "!mt reverse upper ab & upper c",
     "!mt pwd & upper a & reverse bc & echo d"}

HandleInputOneWorker == HandleInputFrom(OneWorkerLines) /\ UNCHANGED run

OneWorkerNext ==
    \/ HandleInputOneWorker
    \/ AwaitResult
    \/ BatchSub
    \/ BatchRead
    \/ Return
    \/ WorkerGet(0)
    \/ WorkerRun(0)
    \/ WorkerFinally1(0)
    \/ WorkerFinally2(0)

OneWorkerSpec == Init /\ [][OneWorkerNext]_vars

(***************************************************************************)
(* Plain lines whose chain attempt comes to nothing, some after a built-in *)
(* step of the chain has run, and help lines.                              *)
(***************************************************************************)
FallbackLines ==
    {"nope set A=1", "get A", "calc cd /tmp", "pwd", "nope upper a", "upper a",
     "upper calc x", "upper reverse ab", "nope alias q=pwd", "q",
     "help upper", "help reverse", "help calc", "help nope", "help \"upper\""}

HandleInputFallback == HandleInputFrom(FallbackLines) /\ UNCHANGED run

FallbackNext ==
    \/ HandleInputFallback
    \/ AwaitResult
    \/ Return
    \/ \E w \in Workers :
          \/ WorkerGet(w)
          \/ WorkerRun(w)
          \/ WorkerFinally1(w)
          \/ WorkerFinally2(w)

FallbackSpec == Init /\ [][FallbackNext]_vars

TypeOK ==
    /\ pc \in {"load", "prompt", "await", "batch", "gather", "return", "barrier", "exited", "crashed"}
    /\ \A w \in Workers : wpc[w] \in {"get", "run", "finally1", "finally2", "dead"}
    /\ unfinished_tasks \in Nat

(***************************************************************************)
(* Properties                                                              *)
(***************************************************************************)
InQueue(q, P(_)) == Cardinality({i \in 1..Len(q) : P(q[i])})

Busy == {w \in Workers : owed[w] > 0}

\* tasks and results between add_task and the read that takes the result
InSystem == Len(task_queue) + Cardinality(Busy) + Len(result_queue)

\* no positional token of the line is an unquoted recognized name
NoChainCandidate(command_line) ==
    LET positional == extract_positional(split_line(command_line))
    IN \A i \in 1..Len(positional) : ~Recognized(positional[i], command_line)

\* C1: every task a worker dequeues (a command that returns, one that raises,
\* an unregistered name) gets exactly one (worker-id, text) pair published by
\* that worker: a worker at the top of its loop owes no result, a worker that
\* holds a task owes exactly one, and no worker is lost with a result owed.
C1_OneResultPerTask ==
    /\ \A w \in Workers :
        /\ wpc[w] # "dead"
        /\ owed[w] \in {0, 1}
        /\ wpc[w] = "get" => owed[w] = 0
        /\ wpc[w] = "run" => owed[w] = 1
    /\ \A i \in 1..Len(result_queue) : result_queue[i].worker \in Workers

C1_Witness ==
    /\ \A w \in Workers : wpc[w] = "get"
    /\ \E i, j \in 1..Len(result_queue) :
        /\ result_queue[i].command = "calc"
        /\ StartsWith(result_queue[i].text, "Fehler bei calc")
        /\ result_queue[j].command = "upper"
        /\ result_queue[j].text = "A"

\* C2 (as stated): dispatching a single-command line whose command is
\* registered enqueues exactly one task and reads exactly one result.
C2_AnyRegistered ==
    (pc = "return" /\ hi.command \in COMMANDS /\ NoChainCandidate(hi.command_line))
        => (Len(hi.enq) = 1 /\ Len(hi.reads) = 1)

\* C2 (amended): dispatching a single-command line whose command, after alias
\* expansion, is registered and is not a built-in name enqueues exactly one
\* task and reads exactly one result.
C2_RegisteredNotBuiltin ==
    (pc = "return" /\ hi.command \in COMMANDS \ BUILTIN_NAMES
                   /\ NoChainCandidate(hi.command_line))
        => (hi.stage = "enqueue" /\ Len(hi.enq) = 1 /\ Len(hi.reads) = 1)

C2_Witness ==
    /\ pc = "return"
    /\ hi.line = "u x"
    /\ hi.command = "upper"
    /\ hi.enq = <<1>>
    /\ hi.reads = <<1>>
    /\ hi.output = <<"X">>

FirstTokens(subs) == {split_line(subs[i])[1] : i \in 1..Len(subs)}

IsBatchCall == hi.stage = "batch" /\ hi.command \in BATCH_MARKERS

\* the composition the chain form denotes: names[i](names[i+1](... (value)))
RECURSIVE Nested(_, _, _, _)
Nested(names, i, value_tokens, st) ==
    IF i = Len(names)
    THEN EvalName(names[i], build_args_from_parts(<<names[i]>> \o value_tokens), st)
    ELSE EvalName(names[i], StrArg(Nested(names, i + 1, value_tokens, st).value),
                  Nested(names, i + 1, value_tokens, st))

\* the line of the running call has the form  outer c1 ... ck value...
ChainForm ==
    /\ hi.stage \in {"chain", "builtin", "enqueue"}
    /\ hi.command \in COMMANDS \cup BUILTIN_NAMES
    /\ LET parts == split_line(hi.command_line)
       IN /\ Len(parts) >= 3
          /\ Recognized(parts[2], hi.command_line)
          /\ \A i \in 1..Len(parts) : ~StartsWith(parts[i], "--")
          /\ Len(ChainFrom(parts, 2, hi.command_line)) + 1 < Len(parts)

ChainNames == <<hi.command>> \o ChainFrom(split_line(hi.command_line), 2, hi.command_line)

ChainValue ==
    LET parts == split_line(hi.command_line)
    IN SubSeq(parts, Len(ChainNames) + 1, Len(parts))

ChainExpected ==
    Nested(ChainNames, 1, ChainValue, [ok |-> TRUE, value |-> "", S |-> hi.S0, calls |-> <<>>])

Reverse(seq) == [i \in 1..Len(seq) |-> seq[Len(seq) + 1 - i]]

\* C3: a line  outer c1 ... ck value  whose nested evaluation succeeds is
\* answered on the control thread with outer(c1(... ck(value))): the chain is
\* applied innermost first, each name invoked exactly once (names may repeat),
\* and nothing is enqueued.
C3_ChainNesting ==
    (pc = "return" /\ ChainForm /\ ChainExpected.ok)
        => /\ hi.stage = "chain"
           /\ hi.enq = <<>>
           /\ hi.output = <<ChainExpected.value>>
           /\ [i \in 1..Len(hi.calls) |-> hi.calls[i].name] = Reverse(ChainNames)

C5_BarrierAfterPublish ==
    pc = "exited" => \A w \in Workers : owed[w] = 0

\* C6: a command that raises inside a worker does not end the thread: the
\* worker publishes the text "Fehler bei <command>: <exception>" and goes
\* back to the task queue, where it takes later tasks.
C6_WorkerSurvivesRaise ==
    /\ \A w \in Workers :
        /\ wpc[w] # "dead"
        /\ (wpc[w] \in {"finally1", "finally2"} /\ wtask[w].command = "calc")
              => StartsWith(wresult[w], "Fehler bei calc: ")
    /\ \A i \in 1..Len(result_queue) :
        result_queue[i].command = "calc"
            => StartsWith(result_queue[i].text, "Fehler bei calc: ")

C6_Witness ==
    \E w \in Workers, i \in 1..Len(result_queue) :
        /\ result_queue[i].worker = w
        /\ result_queue[i].command = "calc"
        /\ result_queue[i].text = "Fehler bei calc: 'str'"
        /\ wpc[w] = "finally1"
        /\ wtask[w].command = "upper"
        /\ wresult[w] = "A"

UnknownName(name) ==
    /\ name # ""
    /\ name \notin COMMANDS \cup BUILTIN_NAMES \cup SHELL_MARKERS \cup BATCH_MARKERS

\* C7: a line whose command is neither registered nor built-in is enqueued
\* like any task; the worker publishes a text that contains "Unbekanntes
\* Kommando", the dispatcher reads one result, and neither the worker nor
\* the control loop ends.
C7_UnknownCommand ==
    /\ \A i \in 1..Len(result_queue) :
        UnknownName(result_queue[i].command)
            => Contains(result_queue[i].text, "Unbekanntes Kommando")
    /\ UnknownName(hi.command)
          => /\ hi.stage = "enqueue"
             /\ hi.enq = <<1>>
             /\ pc \in {"await", "return"}
             /\ \A w \in Workers : wpc[w] # "dead"
             /\ pc = "return" => Len(hi.reads) = 1
             /\ (pc = "return" /\ hi.reads = <<1>>)
                   => Contains(hi.output[1], "Unbekanntes Kommando")

C7_Witness ==
    /\ pc = "return"
    /\ hi.line = "nope x"
    /\ hi.reads = <<1>>
    /\ hi.output = <<"Unbekanntes Kommando: nope">>
    /\ \A w \in Workers : wpc[w] = "get"

C9_TimeoutCancelsNothing ==
    InSystem = timeouts + Len(hi.enq) - Len(hi.reads)

\* a later single-command read returns the result of a timed-out batch task
C9_Witness ==
    /\ pc = "return"
    /\ timeouts = 1
    /\ hi.line = "nope x"
    /\ hi.enq = <<1>>
    /\ hi.reads = <<StaleId>>
    /\ hi.output = <<"A">>

\* the first stage of dispatch that matches an alias-expanded line
FirstMatch(command_line, S0) ==
    LET parts == split_line(command_line)
        word == StrLower(Strip(command_line))
    IN IF word \in SUPPRESS_WORDS \cup RESUME_WORDS THEN "debug"
       ELSE IF parts[1] \in SHELL_MARKERS THEN "shell"
       ELSE IF parts[1] \in BATCH_MARKERS THEN "batch"
       ELSE IF evaluate_composed_chain_if_any(parts[1], parts, command_line, S0).ok
       THEN "chain"
       ELSE IF parts[1] \in BUILTIN_NAMES THEN "builtin"
       ELSE "enqueue"

\* C10: dispatch tries its stages in a fixed order (alias expansion, debug
\* toggles, shell escape, batch mode, chain composition, built-in, enqueue);
\* the first stage that matches handles the line and no later stage runs, so
\* a name that is both built-in and registered is never enqueued.
C10_StageOrder ==
    hi.stage \notin {"none", "blank"}
        => /\ hi.command_line = expand_aliases_line(hi.line, hi.S0.ALIASES)
           /\ hi.stage = FirstMatch(hi.command_line, hi.S0)
           /\ hi.stage \in {"debug", "shell", "chain", "builtin"}
                 => /\ hi.enq = <<>>
                    /\ hi.reads = <<>>
                    /\ pc \in {"return", "crashed"}
           /\ hi.stage \in {"debug", "shell"} => hi.calls = <<>>
           /\ hi.stage = "enqueue" => hi.enq = <<1>>
           /\ hi.command \in BUILTIN_NAMES \cap COMMANDS => hi.enq = <<>>

C10_Witness ==
    /\ pc = "return"
    /\ hi.line = "e hi"
    /\ hi.command_line = "echo hi"
    /\ hi.stage = "builtin"
    /\ hi.enq = <<>>
    /\ hi.output = <<"hi">>


\* the first run of unquoted recognized names among the positional tokens
FirstRun(command_line) ==
    LET positional == extract_positional(split_line(command_line))
        starts == {p \in 1..Len(positional) : Recognized(positional[p], command_line)}
    IN IF starts = {} THEN <<>> ELSE ChainFrom(positional, Min(starts), command_line)

\* the three ways chain resolution of the running call's line comes to nothing:
\* no run of recognized names, an unknown outer name, a name in the run whose
\* function raises
ChainComesToNothing ==
    \/ NoChainCandidate(hi.command_line)
    \/ hi.command \notin COMMANDS \cup BUILTIN_NAMES
    \/ \E i \in 1..Len(FirstRun(hi.command_line)) :
          /\ FirstRun(hi.command_line)[i] \in COMMANDS \ BUILTIN_NAMES
          /\ CallCommand(FirstRun(hi.command_line)[i], EmptyArgs, <<>>).raised

\* C11: chain resolution never raises: when no run of recognized names is
\* found or an evaluation step fails, handle_input goes on with the ordinary
\* built-in or enqueue dispatch of the original line.
C11_ChainFallsThrough ==
    (hi.stage \in {"chain", "builtin", "enqueue"} /\ ChainComesToNothing)
        => LET args == build_args_from_parts(split_line(hi.command_line))
           IN /\ pc # "crashed"
              /\ hi.stage # "chain"
              /\ hi.stage = "builtin"
                    => /\ hi.command \in BUILTIN_NAMES
                       /\ hi.enq = <<>>
                       /\ hi.calls # <<>>
                       /\ hi.calls[Len(hi.calls)]
                              = [name |-> hi.command, args |-> args, on |-> "builtin"]
              /\ hi.stage = "enqueue"
                    => /\ hi.command \notin BUILTIN_NAMES
                       /\ hi.enq = <<1>>
                       /\ \A i \in 1..Len(task_queue) :
                             task_queue[i].id = 1
                                 => /\ task_queue[i].command = hi.command
                                    /\ task_queue[i].args
                                           = expand_env_in_args(args, S.environ)

C11_Witness ==
    /\ hi.line = "upper calc x"
    /\ hi.stage = "enqueue"
    /\ pc = "await"
    /\ Len(task_queue) = 1
    /\ task_queue[1].command = "upper"
    /\ task_queue[1].args = build_args_from_parts(<<"upper", "calc", "x">>)

\* C12: a recognized name that appears quoted in the source line is never a
\* chain element and is never invoked by the dispatch of that line; the line
\*  echo "upper" hello  prints the literal text  upper hello.
C12_QuotedNameNotInvoked ==
    hi.stage # "none"
        => \A n \in (COMMANDS \cup BUILTIN_NAMES) \ {hi.command} :
              was_quoted(n, hi.line)
                  => \A i \in 1..Len(hi.calls) : hi.calls[i].name # n

\* the environment variable a name written on a set or get line denotes
VarOf(N) == StripVarPrefix(N)

\* after  set N=V  the variable holds V
SetStores(names) ==
    \A N \in names, V \in SessionValues :
        (hi.stage # "none" /\ hi.line = SetLine(N, V))
            => DictGet(S.environ, VarOf(N), "") = V

\* get N  answers with the value the variable held when the line was read
GetReturns(names) ==
    \A N \in names :
        (hi.stage # "none" /\ hi.line = GetLine(N)
           /\ DictHas(hi.S0.environ, VarOf(N)))
            => hi.output = <<DictGet(hi.S0.environ, VarOf(N), "")>>

\* only a set line for the variable changes it
OnlySetChanges(names) ==
    \A N \in names :
        DictGet(S'.environ, VarOf(N), "") # DictGet(S.environ, VarOf(N), "")
            => \E M \in SessionNames, V \in SessionValues :
                  VarOf(M) = VarOf(N) /\ hi'.line = SetLine(M, V)

FirstIsAlias(line, ALIASES) ==
    LET parts == split_line(line)
    IN parts # <<>> /\ DictHas(ALIASES, parts[1])

\* the line after one replacement of its first token by the alias text
ReplaceOnce(line, ALIASES) ==
    LET parts == split_line(line)
    IN IF Len(parts) > 1
       THEN DictGet(ALIASES, parts[1], "") \o " " \o Join(Tail(parts))
       ELSE DictGet(ALIASES, parts[1], "")

\* the line after k replacements
RECURSIVE Replaced(_, _, _)
Replaced(line, k, ALIASES) ==
    IF k = 0 THEN line ELSE ReplaceOnce(Replaced(line, k - 1, ALIASES), ALIASES)

\* the expansion of the line runs into the depth cap
CapReached(line, ALIASES) ==
    \A k \in 0..(max_depth - 1) : FirstIsAlias(Replaced(line, k, ALIASES), ALIASES)

\* C14 (as stated): a line that was expanded up to the depth cap is left
\* unchanged by a second alias expansion, for any alias table.
C14_IdempotentAtCap ==
    (hi.stage \notin {"none", "blank"} /\ CapReached(hi.line, hi.S0.ALIASES))
        => expand_aliases_line(hi.command_line, hi.S0.ALIASES) = hi.command_line

\* C14: a second alias expansion leaves the expanded line unchanged whenever
\* the first expansion stopped before the depth cap, or stopped at the cap on
\* a line whose first token is not an alias name.
C14_IdempotentUnlessCutOff ==
    (hi.stage \notin {"none", "blank"}
       /\ (~CapReached(hi.line, hi.S0.ALIASES)
             \/ ~FirstIsAlias(hi.command_line, hi.S0.ALIASES)))
        => expand_aliases_line(hi.command_line, hi.S0.ALIASES) = hi.command_line

C14_Witness ==
    /\ hi.line = "a"
    /\ hi.S0.ALIASES = <<<<"a", "b">>, <<"b", "echo">>>>
    /\ hi.command_line = "echo"
    /\ hi.stage = "builtin"
    /\ pc = "return"

\* C15: for any alias table, self-referential and cyclic ones included, alias
\* expansion performs at most 5 replacements and returns the line as it stands
\* after the last of them.
C15_AtMostFiveReplacements ==
    hi.stage \notin {"none", "blank"}
        => \E k \in 0..max_depth :
              /\ \A j \in 0..(k - 1) :
                    FirstIsAlias(Replaced(hi.line, j, hi.S0.ALIASES), hi.S0.ALIASES)
              /\ k < max_depth
                    => ~FirstIsAlias(Replaced(hi.line, k, hi.S0.ALIASES), hi.S0.ALIASES)
              /\ hi.command_line = Replaced(hi.line, k, hi.S0.ALIASES)

C15_Witness ==
    /\ hi.line = "a"
    /\ hi.S0.ALIASES = <<<<"a", "a x">>>>
    /\ hi.command_line = "a x x x x x"
    /\ hi.stage = "enqueue"

\* the run executes a container that compile_latin has written
Compiled == run.mode = "binary" /\ run.text # ""

\* the manifest compile_latin builds for the compiled script file
CompiledManifest == utf8_encode(json_dumps(Manifest(run.stem, run.ext, run.created)))

\* C16: decoding a container produced by compile_latin from a non-empty source
\* yields exactly the source bytes, and the 8-byte big-endian length field of
\* the container equals the byte length of its manifest.
C16_ContainerRoundTrip ==
    Compiled
        => /\ from_bytes(ReadAt(run.le, Len(LE_MAGIC), 8)) = Len(CompiledManifest)
           /\ ReadAt(run.le, Len(LE_MAGIC) + 8, Len(CompiledManifest)) = CompiledManifest
           /\ run.error \notin {"Not a LUW binary (.le) or unsupported version",
                                "Invalid manifest", "Invalid payload (not gzip?)"}
           /\ run.phase \in {"branch", "lines", "ended"}
                 => run.script_bytes = utf8_encode(Codes(run.text))

C16_Witness ==
    /\ Compiled
    /\ run.stem = <<233>>
    /\ run.phase = "lines"
    /\ run.script_bytes = utf8_encode(Codes("upper a\n# note\n\necho hi\n"))
    /\ run.dispatched = <<"upper a">>

WrongMagic(le) == ReadAt(le, 0, Len(LE_MAGIC)) # LE_MAGIC

ManifestBytes(le) == ReadAt(le, Len(LE_MAGIC) + 8, from_bytes(ReadAt(le, Len(LE_MAGIC), 8)))

MalformedManifest(le) ==
    \/ ~utf8_decode(ManifestBytes(le)).ok
    \/ ~json_loads(utf8_decode(ManifestBytes(le)).cps).ok

Undecompressible(le) ==
    ~gzip_decompress(ReadAt(le, Len(LE_MAGIC) + 8 + Len(ManifestBytes(le)), Len(le))).ok

\* the container-format error of a file: the first of the three checks it fails
FormatError(le) ==
    IF WrongMagic(le) THEN "Not a LUW binary (.le) or unsupported version"
    ELSE IF MalformedManifest(le) THEN "Invalid manifest"
    ELSE IF Undecompressible(le) THEN "Invalid payload (not gzip?)"
    ELSE ""

\* C17: load_and_run_le fails with a container-format error on a wrong magic,
\* on a malformed manifest and on an undecompressible payload, checked in that
\* order; then no script line is dispatched, no task is enqueued, no payload
\* file is written, and only that container run ends.
C17_FormatErrorsInOrder ==
    (run.mode = "binary" /\ run.le # <<>> /\ FormatError(run.le) # "")
        => /\ run.phase \notin {"branch", "lines"}
           /\ WrongMagic(run.le) => run.phase \in {"open", "ended"}
           /\ run.phase = "ended"
                 => /\ run.error = FormatError(run.le)
                    /\ pc = "exited"
           /\ run.dispatched = <<>>
           /\ hi = NoCall
           /\ task_queue = <<>> /\ unfinished_tasks = 0
           /\ ~run.written
           /\ \A w \in Workers : wpc[w] = "get"

C17_Witness ==
    /\ run.le = Container(BadManifest, BadPayload)
    /\ run.phase = "ended"
    /\ run.error = "Invalid manifest"
    /\ pc = "exited"

\* the lines of the file the run executes
FileLines ==
    IF run.mode = "script" THEN splitlines(run.text)
    ELSE splitlines(Text(utf8_decode_replace(run.script_bytes)))

\* the non-blank, non-comment lines among lines, in their order
Meaningful(lines) ==
    SelectSeq(lines, LAMBDA l : Strip(l) # "" /\ ~StartsWith(Strip(l), "#"))

\* the run is dispatching the lines of a script or of a LUW container, or has
\* come to its end after doing so
LineRun ==
    \/ run.phase = "lines"
    \/ run.phase = "ended" /\ ~run.written /\ run.error \in {"", "handle_input raised"}

\* C18: script mode and container execution dispatch the non-blank,
\* non-comment lines strictly in file order, one handle_input call at a time,
\* and the run exits only after the completion barrier has seen every
\* enqueued task marked complete, with no task still queued or executing.
C18_InOrderThenBarrier ==
    LineRun
        => /\ Meaningful(run.dispatched) \o Meaningful(run.lines) = Meaningful(FileLines)
           /\ hi.stage # "none"
                 => /\ run.dispatched # <<>>
                    /\ hi.line = run.dispatched[Len(run.dispatched)]
           /\ pc = "exited"
                 => /\ Meaningful(run.dispatched) = Meaningful(FileLines)
                    /\ run.error = ""
                    /\ unfinished_tasks = 0
                    /\ task_queue = <<>>
                    /\ \A w \in Workers : wpc[w] # "run"

\* the worker w leaves the try block of run with a result for its task
Resolves(w) == wpc[w] = "run" /\ wpc'[w] = "finally1"

\* the name is in commands.COMMANDS now
InRegistry(command) == command \in COMMANDS \/ DictHas(registered, command)

\* the text a call of the function that is bound to the name now comes to
Invoked(command, args) ==
    With(CallCommand(lookup(command, registered), args, S.environ), LAMBDA r :
        IF r.raised THEN "Fehler bei " \o command \o ": " \o r.val ELSE r.val)

\* C19: a worker resolves the command name of a task in the registry as it is
\* when the worker takes the task up, not as it was when the task was
\* enqueued or when the pool started: a name that is registered then is found
\* and its function invoked, a name that is absent then yields the
\* unknown-command result.
C19_LookupAtDequeue ==
    [][\A w \in Workers :
          Resolves(w)
              => wresult'[w] = IF InRegistry(wtask[w].command)
                               THEN Invoked(wtask[w].command, wtask[w].args)
                               ELSE unknown_command(wtask[w].command)]_vars

C19_Witness ==
    \E w \in Workers :
        /\ wpc[w] = "finally1"
        /\ wtask[w].command = "late"
        /\ wtask[w].command \notin COMMANDS
        /\ DictHas(registered, "late")
        /\ wresult[w] = "X"

\* C20: for every built-in name and every argument mapping _run_builtin
\* returns (handled = true, text) without raising, an internal failure being
\* turned into descriptive text; for every other name it returns
\* (false, none) and leaves the session state as it was.
C20_BuiltinsNeverRaise ==
    call.made
        => IF call.command \in BUILTIN_NAMES
           THEN ~call.raised /\ call.handled /\ call.out # "None"
           ELSE ~call.raised /\ ~call.handled /\ call.out = "None" /\ S = call.S0

\* the running handle_input call was given a line that begins with "!pwsh"
\* or "!cmd"
ShellEscapeLine ==
    /\ hi.stage = "shell"
    /\ split_line(hi.line) # <<>>
    /\ split_line(hi.line)[1] \in SHELL_MARKERS

\* C21: a top-level line that begins with "!pwsh" or "!cmd" runs the external
\* command synchronously and handle_input returns normally; a spawn failure
\* or a timeout is reported as a failure value, and no exception leaves
\* handle_input.
C21_ShellEscapeReturns ==
    ShellEscapeLine
        => /\ pc \in {"return", "prompt"}
           /\ hi.enq = <<>>
           /\ \A i \in 1..Len(hi.output) :
                 \/ Contains(hi.output[i], " failed: ")
                 \/ StartsWith(hi.output[i], "Keine ")

\* the subcommands of the running batch line that have been dispatched so far
Dispatched == 1..Len(hi.kinds)

\* subcommand i begins with a built-in name and holds no chain
BuiltinSub(i) ==
    /\ split_line(hi.subcmds[i]) # <<>>
    /\ split_line(hi.subcmds[i])[1] \in BUILTIN_NAMES
    /\ NoChainCandidate(hi.subcmds[i])

\* the subcommands dispatched so far that reached an enqueue step
Enqueuing == {i \in Dispatched : hi.kinds[i] \in {"enqueue", "chain"}}

\* C22: in batch mode a subcommand whose first token is a built-in name and
\* that holds no chain is executed on the control thread during the dispatch
\* phase, enqueues no task and adds no read; the number of reads is the number
\* of subcommands that reached an enqueue step.
C22_BuiltinSubIsSynchronous ==
    IsBatchCall
        => /\ \A i \in Dispatched :
                BuiltinSub(i)
                    => /\ i \notin Enqueuing
                       /\ hi.global_shell = "" => hi.kinds[i] = "builtin"
                       /\ hi.global_shell # "" => hi.kinds[i] = "shell"
           /\ Len(hi.enq) = Cardinality(Enqueuing)
           /\ hi.task_count = Cardinality(Enqueuing)
           /\ pc = "batch" => hi.reads = <<>>
           /\ pc = "gather" => Len(hi.reads) + hi.reads_left = Cardinality(Enqueuing)
           /\ pc = "return" => Len(hi.reads) = Cardinality(Enqueuing)

C22_Witness ==
    /\ pc = "return"
    /\ hi.line = "!mt upper a & pwd & reverse b"
    /\ hi.kinds = <<"enqueue", "builtin", "enqueue">>
    /\ hi.calls = <<[name |-> "pwd", args |-> EmptyArgs, on |-> "builtin"]>>
    /\ Len(hi.reads) = 2
    /\ hi.output[1] = "/"

\* worker w is executing a task that the running batch line enqueued
ExecutingForLine(w) ==
    /\ IsBatchCall
    /\ wpc[w] = "run"
    /\ \E i \in 1..Len(hi.enq) : wtask[w].id = hi.enq[i]

\* C23: built-ins and worker command functions are not mutually excluded.  A
\* built-in subcommand that follows an enqueued subcommand of the same batch
\* line changes the session on the control thread while a worker may still be
\* executing the earlier task, and the command function reads the session as
\* it is at the moment it runs: the old state or the new one.
C23_WorkerReadsLiveState ==
    [][/\ \A w \in Workers :
            (Resolves(w) /\ wtask[w].command = "echo")
                => wresult'[w] = expand_env_in_str(ArgGet(wtask[w].args, "str", ""),
                                                   S.environ)
       /\ \A w \in Workers :
            (ExecutingForLine(w) /\ pc = "batch" /\ S' # S)
                => /\ hi'.kinds = Append(hi.kinds, "builtin")
                   /\ wpc'[w] = "run"
                   /\ wtask'[w] = wtask[w]]_vars

C23_Witness ==
    \E w \in Workers :
        /\ IsBatchCall
        /\ hi.line = "!mt echo upper $x & set X=1"
        /\ hi.S0.environ = <<>>
        /\ S.environ = <<<<"X", "1">>>>
        /\ wpc[w] = "finally1"
        /\ wtask[w].command = "echo"
        /\ wtask[w].args = StrArg("$X")
        /\ wresult[w] = "1"

\* the step puts a task into the task queue
Enqueues == Len(task_queue') = Len(task_queue) + 1

\* the argument mapping handle_input built for the task the step enqueues,
\* before variable expansion
BuiltArgs ==
    IF pc = "prompt" THEN build_args_from_parts(split_line(hi'.command_line))
    ELSE IF hi'.kinds[Len(hi'.kinds)] = "chain"
    THEN StrArg(evaluate_inner_chain_if_any(split_line(Head(hi.subs)), Head(hi.subs), S).result)
    ELSE build_args_from_parts(split_line(Head(hi.subs)))

\* C24: every argument mapping handle_input enqueues, in single-command
\* dispatch and on every batch path including the chained-result path, has had
\* variable expansion applied to each string value: each $env:NAME, ${NAME}
\* or $NAME is replaced by the current environment value, or by the empty
\* string if NAME is unset.
C24_EnqueuedArgsExpanded ==
    [][Enqueues
          => task_queue'[Len(task_queue')].args
                 = expand_env_in_args(BuiltArgs, S.environ)]_vars

\* the running handle_input call is about to return to its caller
Returning == pc = "return"

\* C25: if no batch read has ever timed out, then whenever handle_input
\* returns the task queue is empty, no worker is executing a task and the
\* result channel is empty; hence the one result a single-command dispatch
\* reads is the result of the task that dispatch enqueued.
C25_QuiescentAtReturn ==
    timeouts = 0
        => /\ Returning
                => /\ task_queue = <<>>
                   /\ \A w \in Workers : wpc[w] = "get"
                   /\ result_queue = <<>>
                   /\ unfinished_tasks = 0
           /\ (hi.stage = "enqueue" /\ hi.reads # <<>>) => hi.reads = hi.enq

C25_Witness ==
    /\ timeouts = 0
    /\ Returning
    /\ hi.line = "upper a"
    /\ hi.enq = <<1>>
    /\ hi.reads = <<1>>
    /\ hi.output = <<"A">>
    /\ task_queue = <<>>
    /\ result_queue = <<>>
    /\ \A w \in Workers : wpc[w] = "get"

\* C26: with at least one worker, command functions that return and fair
\* scheduling of the workers, every enqueued task is eventually dequeued and
\* its result published, so the unbounded blocking read of every
\* single-command dispatch eventually returns.
C26_EveryTaskServed ==
    \* the queue is FIFO: every task is dequeued if an idle worker never
    \* leaves a task waiting for ever
    /\ \A w \in Workers :
          (wpc[w] = "get" /\ task_queue # <<>>) ~> (wpc[w] = "run" \/ task_queue = <<>>)
    /\ \A w \in Workers : (owed[w] = 1) ~> (owed[w] = 0)
    /\ (pc = "await") ~> (pc = "return")

\* C27: with exactly one worker, the result channel empty and no read timing
\* out, the results a batch line gathers arrive in the order in which its
\* tasks were enqueued: the task queue is FIFO and the one worker publishes
\* each result before it dequeues the next task.
C27_OneWorkerKeepsOrder ==
    (IsBatchCall /\ timeouts = 0)
        => /\ Len(hi.reads) <= Len(hi.enq)
           /\ \A i \in 1..Len(hi.reads) : hi.reads[i] = hi.enq[i]
           /\ \A i \in 1..Len(result_queue) :
                 result_queue[i].id = hi.enq[Len(hi.reads) + i]

C27_Witness ==
    /\ pc = "return"
    /\ timeouts = 0
    /\ hi.line = "!mt calc & upper a & nope x"
    /\ hi.enq = <<1, 2, 3>>
    /\ hi.reads = <<1, 2, 3>>
    /\ hi.output[2] = "A"
    /\ hi.output[3] = unknown_command("nope")

\* the call in progress is a plain line whose chain resolution reported not
\* applicable: the line went on to the built-in or the enqueue stage
ChainNotApplicable ==
    /\ pc \in {"await", "return", "crashed"}
    /\ hi.stage \in {"builtin", "enqueue"}
    /\ hi.subcmds = <<>>

\* C28: when chain resolution reports not applicable, the attempt has left the
\* session unchanged (alias table, environment, working directory), so the
\* fallback dispatch starts from the state the line was entered with: a
\* built-in acts on that state and an enqueue leaves it as it was.
C28_FailedChainLeavesSession ==
    ChainNotApplicable =>
        With(build_args_from_parts(split_line(hi.command_line)), LAMBDA args :
            IF hi.stage = "builtin"
            THEN With(run_builtin(hi.command, args, hi.S0), LAMBDA b :
                    /\ S = b.S
                    /\ hi.output = IF Truthy(b.out) THEN <<b.out>> ELSE <<>>)
            ELSE S = hi.S0)

\* the line dispatched is `help X` with X a registered command name
HelpOfCommand ==
    /\ pc \in {"await", "return", "crashed"}
    /\ hi.command = "help"
    /\ Len(split_line(hi.command_line)) = 2
    /\ split_line(hi.command_line)[2] \in COMMANDS

\* C29: dispatching `help X`, X a registered command name, returns the
\* documentation text of X and does not invoke the command function of X.
C29_HelpDoesNotInvoke ==
    HelpOfCommand =>
        With(split_line(hi.command_line)[2], LAMBDA X :
            /\ pc = "return"
            /\ hi.output = <<X \o "\n" \o CommandDoc(X)>>
            /\ \A i \in 1..Len(hi.calls) :
                  ~(hi.calls[i].name = X /\ hi.calls[i].on = "command"))

\* the tokens alias expansion yields when every replacement keeps the token
\* boundaries: the first token gives way to the tokens of its alias text
RECURSIVE ExpandTokens(_, _, _)
ExpandTokens(tokens, depth, ALIASES) ==
    IF may_expand(depth, tokens, ALIASES)
    THEN ExpandTokens(split_line(DictGet(ALIASES, tokens[1], "")) \o Tail(tokens),
                      depth + 1, ALIASES)
    ELSE tokens

\* the line dispatched began with an alias
AliasedLine ==
    /\ hi.stage \notin {"none", "blank"}
    /\ FirstIsAlias(hi.line, hi.S0.ALIASES)

\* C30: alias expansion preserves token boundaries: the tokens of the expanded
\* line are the tokens of the alias text followed by exactly the remaining
\* tokens of the line, and a remaining token that was quoted is still no
\* chain candidate after the expansion.
C30_ExpansionKeepsTokens ==
    AliasedLine =>
        With(split_line(hi.line), LAMBDA parts :
            /\ split_line(hi.command_line) = ExpandTokens(parts, 0, hi.S0.ALIASES)
            /\ \A i \in 2..Len(parts) :
                  was_quoted(parts[i], hi.line) => ~Recognized(parts[i], hi.command_line))
====
